---------------------------- MODULE Spec2Model ----------------------------
(***************************************************************************)
(* A model of the candidate-generation and pose-scoring engine of          *)
(* src/utils.py.  Every function of the source that is modelled is one     *)
(* action: the action draws nothing itself, the arguments of the call are  *)
(* fixed by the initial state, and the action computes what the function   *)
(* returns.  Each family of functions keeps its call in one record-valued  *)
(* variable whose fields carry the names the source uses.                  *)
(*                                                                         *)
(*   search   histogram_pose_search, sampling_loss_pose_search,            *)
(*            direct_histogram_pose_search                                 *)
(*   pano     make_pano                                                    *)
(*   rotgen   generate_rot_points                                          *)
(*   octree   generate_octree                                              *)
(*                                                                         *)
(* Tensor indices are 0-based as in the source; a tensor t is a sequence   *)
(* and its element i is t[i + 1].                                          *)
(***************************************************************************)
EXTENDS Integers, Sequences, FiniteSets, Bags, TLC

VARIABLES search, pano, rotgen, octree, call

vars == <<search, pano, rotgen, octree, call>>

Idle == [pc |-> "idle"]

-----------------------------------------------------------------------------
(* Generic helpers                                                         *)

Max(a, b) == IF a >= b THEN a ELSE b

Min(a, b) == IF a <= b THEN a ELSE b

Range(s) == {s[k] : k \in 1..Len(s)}

\* The tensors that hold each of 0..n-1 exactly once.
IndexPerms(n) ==
  {p \in [1..n -> 0..(n - 1)] : \A a, b \in 1..n : a # b => p[a] # p[b]}

\* t[idx] for an index tensor idx (advanced indexing: one row per index).
Gather(t, idx) == [k \in 1..Len(idx) |-> t[idx[k] + 1]]

\* torch.flip(t, [0])
Flip(t) == [k \in 1..Len(t) |-> t[Len(t) + 1 - k]]

\* The bag of the elements of a sequence.
BagOfSeq(s) ==
  [v \in Range(s) |-> Cardinality({k \in 1..Len(s) : s[k] = v})]

\* Tensor.argsort(): an index tensor that puts t in ascending order.  The
\* sort is not stable by default, so equal elements come in any order.
ArgsortOutcomes(t) ==
  {p \in IndexPerms(Len(t)) :
     \A a, b \in 1..Len(t) : a < b => t[p[a] + 1] <= t[p[b] + 1]}

\* A slice that gives up when the start falls before the first element.
SliceLastNoClamp(t, n) ==
  IF n = 0 THEN t
  ELSE IF n > Len(t) THEN <<>> ELSE SubSeq(t, Len(t) - n + 1, Len(t))

\* t[-n:] for n >= 0.  -0 is 0, so t[-0:] is all of t; a start before the
\* first element is clamped to the first element.
SliceLast(t, n) ==
  IF n = 0 THEN t ELSE SubSeq(t, Max(Len(t) - n, 0) + 1, Len(t))

\* t[:n] for n >= 0.
SliceFirst(t, n) == SubSeq(t, 1, Min(n, Len(t)))

-----------------------------------------------------------------------------
(* The pose searches (src/utils.py 1422-1505, 1566-1611, 1614-1693)        *)

\* Bounds of the search model.
MaxTrans == 2
MaxRot == 3
MaxCells == 4
MaxNumInput == 5
MaxScore == 2

\* The K x R tables of scores, flattened row by row: entry (i, j) is at
\* flattened index i * R + j.  The values are what the histogram
\* collaborators (or the sampling loss) give for the pair.
Tables(n) == [1..n -> 0..MaxScore]

SearchFns == {"histogram", "sampling_loss", "direct"}

\* direct_histogram_pose_search scores candidate i = (trans[i], rot[i]):
\* its two tensors have the same length.
InitSearch ==
  \E fn \in SearchFns, K \in 1..MaxTrans, R \in 1..MaxRot,
     n \in 0..MaxNumInput :
    /\ K * R <= MaxCells
    /\ fn = "direct" => R = K
    /\ \E t \in Tables(IF fn = "direct" THEN K ELSE K * R) :
         search = [pc |-> "call", fn |-> fn, len_trans |-> K, len_rot |-> R,
                   table |-> t, num_input |-> n, status |-> "none",
                   min_inds |-> <<>>, trimmed_trans |-> <<>>,
                   trimmed_rot |-> <<>>]
    /\ pano = Idle
    /\ rotgen = Idle
    /\ octree = Idle
    /\ call = Idle

\* Calls with no translation candidate or no rotation candidate.  The table
\* of direct_histogram_pose_search has one entry per translation.
InitSearchEmpty ==
  \E fn \in SearchFns, K \in 0..MaxTrans, R \in 0..MaxRot,
     n \in 0..MaxNumInput :
    /\ K = 0 \/ R = 0
    /\ \E t \in Tables(IF fn = "direct" THEN K ELSE K * R) :
         search = [pc |-> "call", fn |-> fn, len_trans |-> K, len_rot |-> R,
                   table |-> t, num_input |-> n, status |-> "none",
                   min_inds |-> <<>>, trimmed_trans |-> <<>>,
                   trimmed_rot |-> <<>>]
    /\ pano = Idle
    /\ rotgen = Idle
    /\ octree = Idle
    /\ call = Idle

\* The division taken by the number of translations.
TransIndexOfByTrans(f, len_trans, len_rot) == f \div len_trans

\* min_inds // len(rot) and min_inds % len(rot)
TransIndexOf(f, len_trans, len_rot) == f \div len_rot

RotIndexOf(f, len_trans, len_rot) == f % len_rot

\* The selection taken from the low end of the ascending order.
HistogramTopIndsLowEnd(sorted, num_input) == SliceFirst(sorted, num_input)

\* hist_intersect.flatten().argsort()[-num_input:]
HistogramTopInds(sorted, num_input) == SliceLast(sorted, num_input)

\* histogram_pose_search: lines 1500-1505.
HistogramPoseSearch ==
  /\ search.pc = "call"
  /\ search.fn = "histogram"
  /\ \E sorted \in ArgsortOutcomes(search.table) :
       LET min_inds == HistogramTopInds(sorted, search.num_input)
       IN search' = [search EXCEPT
            !.pc = "done",
            !.status = "returned",
            !.min_inds = min_inds,
            !.trimmed_trans =
               [k \in 1..Len(min_inds) |->
                  TransIndexOf(min_inds[k], search.len_trans, search.len_rot)],
            !.trimmed_rot =
               [k \in 1..Len(min_inds) |->
                  RotIndexOf(min_inds[k], search.len_trans, search.len_rot)]]
  /\ UNCHANGED <<pano, rotgen, octree, call>>

\* num_input = min(num_input, len(loss_table.flatten()))
\* loss_table.flatten().argsort()[:num_input]
SamplingLossTopInds(sorted, num_input) ==
  SliceFirst(sorted, Min(num_input, Len(sorted)))

\* sampling_loss_pose_search: lines 1605-1611.
SamplingLossPoseSearch ==
  /\ search.pc = "call"
  /\ search.fn = "sampling_loss"
  /\ \E sorted \in ArgsortOutcomes(search.table) :
       LET min_inds == SamplingLossTopInds(sorted, search.num_input)
       IN search' = [search EXCEPT
            !.pc = "done",
            !.status = "returned",
            !.min_inds = min_inds,
            !.trimmed_trans =
               [k \in 1..Len(min_inds) |->
                  TransIndexOf(min_inds[k], search.len_trans, search.len_rot)],
            !.trimmed_rot =
               [k \in 1..Len(min_inds) |->
                  RotIndexOf(min_inds[k], search.len_trans, search.len_rot)]]
  /\ UNCHANGED <<pano, rotgen, octree, call>>

\* hist_intersect.flatten().argsort()[-num_input:] followed by torch.flip
DirectTopInds(sorted, num_input) == Flip(SliceLast(sorted, num_input))

\* direct_histogram_pose_search: lines 1652-1654 and 1688-1693.  The loop
\* reads rot[i] for every i < len(trans): with fewer rotations than
\* translations line 1654 raises IndexError.
DirectHistogramPoseSearch ==
  /\ search.pc = "call"
  /\ search.fn = "direct"
  /\ IF search.len_rot < search.len_trans
     THEN search' = [search EXCEPT !.pc = "done", !.status = "IndexError"]
     ELSE \E sorted \in ArgsortOutcomes(search.table) :
            LET min_inds == DirectTopInds(sorted, search.num_input)
            IN search' = [search EXCEPT
                 !.pc = "done",
                 !.status = "returned",
                 !.min_inds = min_inds,
                 !.trimmed_trans = min_inds,
                 !.trimmed_rot = min_inds]
  /\ UNCHANGED <<pano, rotgen, octree, call>>

NextSearch ==
  \/ HistogramPoseSearch
  \/ SamplingLossPoseSearch
  \/ DirectHistogramPoseSearch

SpecSearchEmpty == InitSearchEmpty /\ [][NextSearch]_vars

SpecSearch == InitSearch /\ [][NextSearch]_vars

-----------------------------------------------------------------------------
(* Properties of the pose searches                                         *)

SearchDone(fn) == search.pc = "done" /\ search.fn = fn

\* The number of candidates the search chooses from.
Available ==
  IF search.fn = "direct" THEN search.len_trans
  ELSE search.len_trans * search.len_rot

\* The flattened index of the k-th returned pair.
ReturnedIndex(k) ==
  IF search.fn = "direct" THEN search.trimmed_trans[k]
  ELSE search.trimmed_trans[k] * search.len_rot + search.trimmed_rot[k]

ReturnedCount == Len(search.trimmed_trans)

Kept == {ReturnedIndex(k) : k \in 1..ReturnedCount}

Dropped == (0..(Available - 1)) \ Kept

ScoreAt(f) == search.table[f + 1]

ReturnedScore(k) == ScoreAt(ReturnedIndex(k))

PairsWellFormed ==
  /\ Len(search.trimmed_rot) = ReturnedCount
  /\ \A k \in 1..ReturnedCount :
       /\ search.trimmed_trans[k] \in 0..(search.len_trans - 1)
       /\ search.trimmed_rot[k] \in 0..(search.len_rot - 1)
  /\ \A k, l \in 1..ReturnedCount : k # l => ReturnedIndex(k) # ReturnedIndex(l)

\* How often the value v occurs among the n largest entries of the table.
CountAmongLargest(v, n) ==
  LET above == Cardinality({f \in 0..(Available - 1) : ScoreAt(f) > v})
      equal == Cardinality({f \in 0..(Available - 1) : ScoreAt(f) = v})
  IN Min(equal, Max(n - above, 0))

\* C1: histogram_pose_search with 1 <= N <= K*R returns N pairs, each the
\* (translation, rotation) of one flattened index of the K x R score matrix,
\* no index twice, and the scores at these indices are, as a multiset, the N
\* largest values of the matrix.
C1_TopNLargest ==
  (SearchDone("histogram") /\ 1 <= search.num_input
     /\ search.num_input <= Available) =>
    /\ ReturnedCount = search.num_input
    /\ PairsWellFormed
    /\ \A v \in 0..MaxScore :
         Cardinality({k \in 1..ReturnedCount : ReturnedScore(k) = v})
           = CountAmongLargest(v, search.num_input)

C1_Witness ==
  /\ SearchDone("histogram")
  /\ search.len_trans # search.len_rot
  /\ 1 < search.num_input /\ search.num_input < Available
  /\ \E f \in Kept, g \in Dropped : ScoreAt(f) > ScoreAt(g)
  /\ \E k, l \in 1..ReturnedCount : ReturnedScore(k) # ReturnedScore(l)

\* C2: the candidates returned by histogram_pose_search are ordered best
\* first: their scores are non-increasing from the first returned entry to
\* the last.
C2_BestFirst ==
  SearchDone("histogram") =>
    \A k, l \in 1..ReturnedCount :
      k < l => ReturnedScore(k) >= ReturnedScore(l)

\* C3 as claimed: among entries of the flattened score matrix that tie at
\* the cut-off, histogram_pose_search keeps those with the lower flattened
\* indices and drops those with the higher ones.
C3_LowerIndexKept ==
  SearchDone("histogram") =>
    \A f \in Kept, g \in Dropped : ScoreAt(f) = ScoreAt(g) => f < g

\* C3 as amended: every entry histogram_pose_search keeps scores at least as
\* high as every entry it drops; which of the entries tied at the cut-off are
\* kept is left to the sort.
C3_KeptNotBelowDropped ==
  SearchDone("histogram") =>
    /\ PairsWellFormed
    /\ \A f \in Kept, g \in Dropped : ScoreAt(f) >= ScoreAt(g)

\* A tie at the cut-off in which the entry with the higher index is kept.
C3_Witness ==
  /\ SearchDone("histogram")
  /\ \E f \in Kept, g \in Dropped : ScoreAt(f) = ScoreAt(g) /\ f > g
  /\ \E f \in Kept, g \in Dropped : ScoreAt(f) > ScoreAt(g)

\* C4: a search asked for more candidates than there are returns all of
\* them, each once: K*R pairs for histogram_pose_search and
\* sampling_loss_pose_search, len(trans) pairs for
\* direct_histogram_pose_search.
C4_ClampToAvailable ==
  (search.pc = "done" /\ search.num_input > Available) =>
    /\ ReturnedCount = Available
    /\ PairsWellFormed
    /\ Kept = 0..(Available - 1)

C4_Witness ==
  /\ SearchDone("direct")
  /\ search.num_input > Available
  /\ Available > 1
  /\ ReturnedCount = Available

\* C29: histogram_pose_search and direct_histogram_pose_search return
\* exactly min(num_input, number of candidates) pairs for every
\* num_input >= 0, and so none for num_input = 0.
C29_ReturnsMinOfInputAndAvailable ==
  ((SearchDone("histogram") \/ SearchDone("direct"))
     /\ search.status = "returned") =>
    /\ ReturnedCount = Min(search.num_input, Available)
    /\ Len(search.trimmed_rot) = ReturnedCount

\* The same for num_input >= 1.
PositiveInputReturnsMin ==
  ((SearchDone("histogram") \/ SearchDone("direct"))
     /\ search.status = "returned" /\ search.num_input >= 1) =>
    /\ ReturnedCount = Min(search.num_input, Available)
    /\ Len(search.trimmed_rot) = ReturnedCount

-----------------------------------------------------------------------------
(* make_pano (src/utils.py 169-255)                                        *)

\* Bound of the panorama model: the number of points of the cloud.
MaxPoints == 2

\* (H, W) of the rendered image.
resolution == <<2, 3>>

\* A point is given in the spherical form make_pano reduces it to: the
\* normalized image coordinate (x, y) in [-1, 1] x [-1, 1] that cloud2idx
\* gives for its direction, and its distance torch.norm from the origin.
\* rgb holds one colour per point, three channels in [0, 1].  The record of
\* a call holds the image and both optional results: coord is what
\* return_coord hands back with the image, norm_coord what return_norm_coord
\* does (lines 247-255 only select between them).
NormCoords == {<<x, y>> : x \in {-1, 0, 1}, y \in {-1, 1}}

Dists == 1..2

Black == <<0, 0, 0>>

White == <<1, 1, 1>>

Palette == {Black, <<1, 0, 0>>}

Clouds(n) == [1..n -> [coord : NormCoords, dist : Dists]]

InitPano ==
  \E n \in 1..MaxPoints, default_white \in BOOLEAN :
    \E xyz \in Clouds(n), rgb \in [1..n -> Palette] :
      /\ pano = [pc |-> "call", xyz |-> xyz, rgb |-> rgb,
                 default_white |-> default_white,
                 mod_idx |-> <<>>, image |-> <<>>,
                 coord |-> <<>>, norm_coord |-> <<>>]
      /\ search = Idle
      /\ rotgen = Idle
      /\ octree = Idle
      /\ call = Idle

\* Lines 198-204: ((orig_coord_idx + 1) / 2) scaled by (W - 1, H - 1),
\* flipped to (i, j) and truncated by long().
PixelOf(c) ==
  <<((c[2] + 1) * (resolution[1] - 1)) \div 2,
    ((c[1] + 1) * (resolution[2] - 1)) \div 2>>

\* Lines 216-231: coord_idx + temp clamped to max, coord_idx - temp clamped
\* to min = 0.
Shift(x, d, hi) ==
  IF d = 1 THEN Min(x + 1, hi) ELSE IF d = -1 THEN Max(x - 1, 0) ELSE x

Neighbour(px, d) ==
  <<Shift(px[1], d[1], resolution[1] - 1), Shift(px[2], d[2], resolution[2] - 1)>>

\* The (row, column) offsets of the index_put_ calls of lines 233-241 in the
\* order they are made: coord_idx8, 7, 6, 5, 4, 3, 2, 1 and last coord_idx.
PutOrder ==
  << <<0, -1>>, <<0, 1>>, <<-1, -1>>, <<-1, 0>>, <<-1, 1>>,
     <<1, -1>>, <<1, 0>>, <<1, 1>>, <<0, 0>> >>

\* An image is a sequence over its pixels, row by row.
NumPixels == resolution[1] * resolution[2]

PixelIndex(px) == px[1] * resolution[2] + px[2] + 1

\* image.index_put_(idx, values, accumulate=False) on the colours each pixel
\* may hold: a pixel no index names keeps what it may hold; a pixel one or
\* more indices name holds the value written for one of them.  With indices
\* that repeat, torch leaves the result of accumulate=False undefined (the
\* writes are not ordered), so any of the values written there may stay.
IndexPut(may, idx, values) ==
  [q \in 1..NumPixels |->
     LET writers == {k \in 1..Len(idx) : PixelIndex(idx[k]) = q}
     IN IF writers = {} THEN may[q] ELSE {values[k] : k \in writers}]

\* Lines 233-241: the nine index_put_ calls, n of them made so far.
RECURSIVE Splat(_, _, _, _)
Splat(background, coord_idx, mod_rgb, n) ==
  IF n = 0 THEN [q \in 1..NumPixels |-> {background}]
  ELSE IndexPut(Splat(background, coord_idx, mod_rgb, n - 1),
                [k \in 1..Len(coord_idx) |-> Neighbour(coord_idx[k], PutOrder[n])],
                mod_rgb)

\* The images whose first n pixels hold one of the colours they may hold.
RECURSIVE ImagesOf(_, _)
ImagesOf(may, n) ==
  IF n = 0 THEN {<<>>}
  ELSE {Append(img, c) : img \in ImagesOf(may, n - 1), c \in may[n]}

\* Line 243: image * 255
Scale255(img) == [q \in 1..Len(img) |-> [ch \in 1..3 |-> img[q][ch] * 255]]

\* Lines 192-193: torch.flip(torch.argsort(dist)), farther points first.
ModIdxOutcomes(xyz) ==
  {Flip(order) : order \in ArgsortOutcomes([k \in 1..Len(xyz) |-> xyz[k].dist])}

\* The sorted coordinates handed back as they are.
RestoreOrderForgotten(t, mod_idx) == t

\* Lines 247-253: the coordinates in the order of the input points.
RestoreOrder(t, mod_idx) ==
  LET inv_mod_idx == CHOOSE inv \in ArgsortOutcomes(mod_idx) : TRUE
  IN Gather(t, inv_mod_idx)

MakePano ==
  /\ pano.pc = "call"
  /\ \E mod_idx \in ModIdxOutcomes(pano.xyz) :
       LET mod_xyz == Gather(pano.xyz, mod_idx)
           mod_rgb == Gather(pano.rgb, mod_idx)
           orig_coord_idx == [k \in 1..Len(mod_xyz) |-> mod_xyz[k].coord]
           save_coord_idx == [k \in 1..Len(mod_xyz) |-> PixelOf(orig_coord_idx[k])]
           background == IF pano.default_white THEN White ELSE Black
           may == Splat(background, save_coord_idx, mod_rgb, Len(PutOrder))
       IN \E image \in ImagesOf(may, NumPixels) :
            pano' = [pano EXCEPT
              !.pc = "done",
              !.mod_idx = mod_idx,
              !.image = Scale255(image),
              !.coord = RestoreOrder(save_coord_idx, mod_idx),
              !.norm_coord = RestoreOrder(orig_coord_idx, mod_idx)]
  /\ UNCHANGED <<search, rotgen, octree, call>>

NextPano == MakePano

SpecPano == InitPano /\ [][NextPano]_vars

-----------------------------------------------------------------------------
(* Properties of make_pano                                                 *)

PanoDone == pano.pc = "done"

Points == 1..Len(pano.xyz)

PrimaryOf(a) == PixelOf(pano.xyz[a].coord)

ColourAt(px) == pano.image[PixelIndex(px)]

Colour255(a) == [ch \in 1..3 |-> pano.rgb[a][ch] * 255]

\* The pixels point a writes to: its primary pixel and the clamped
\* 8-neighbourhood.
WrittenBy(a) == {Neighbour(PrimaryOf(a), PutOrder[n]) : n \in 1..Len(PutOrder)}

AllPixels ==
  {<<i, j>> : i \in 0..(resolution[1] - 1), j \in 0..(resolution[2] - 1)}

\* C5: when two points at different distances have the same primary pixel
\* (and no third point has it), the pixel ends with the colour of the nearer
\* of the two, whichever comes first in the input.
C5_NearerPointWins ==
  PanoDone =>
    \A a, b \in Points :
      (/\ a # b
       /\ PrimaryOf(a) = PrimaryOf(b)
       /\ pano.xyz[a].dist < pano.xyz[b].dist
       /\ \A c \in Points \ {a, b} : PrimaryOf(c) # PrimaryOf(a))
      => ColourAt(PrimaryOf(a)) = Colour255(a)

\* C6: rendered on the black background, a pixel is exactly [0, 0, 0] if and
\* only if no point wrote to it, as primary pixel or as neighbourhood splat.
C6_BlackIffUnwritten ==
  (PanoDone /\ ~pano.default_white) =>
    \A px \in AllPixels :
      (ColourAt(px) = Black) <=> (\A a \in Points : px \notin WrittenBy(a))

\* C7: positions and colours are sorted with the same permutation (a pixel
\* that is the primary pixel of one point only holds that point's colour),
\* and the i-th returned coordinate, pixel or normalized, is that of the
\* i-th input point.
C7_OriginalOrderRestored ==
  PanoDone =>
    /\ Len(pano.coord) = Len(pano.xyz)
    /\ Len(pano.norm_coord) = Len(pano.xyz)
    /\ \A a \in Points :
         /\ pano.coord[a] = PrimaryOf(a)
         /\ pano.norm_coord[a] = pano.xyz[a].coord
         /\ (\A c \in Points \ {a} : PrimaryOf(c) # PrimaryOf(a))
              => ColourAt(PrimaryOf(a)) = Colour255(a)

\* The distance sort reordered the points, which differ in pixel and colour.
C7_Witness ==
  /\ PanoDone
  /\ Len(pano.xyz) >= 2
  /\ pano.mod_idx # [k \in 1..Len(pano.xyz) |-> k - 1]
  /\ PrimaryOf(1) # PrimaryOf(2)
  /\ pano.rgb[1] # pano.rgb[2]
  /\ pano.coord[1] = PrimaryOf(1)

\* The points whose primary pixel is px.
PrimaryPoints(px) == {a \in Points : PrimaryOf(a) = px}

\* C22: a pixel that is the primary pixel of at least one point ends with
\* the colour of the nearest point whose primary pixel it is, never with a
\* colour only a neighbourhood splat wrote there.
C22_PrimaryPixelShowsNearest ==
  PanoDone =>
    \A px \in AllPixels :
      PrimaryPoints(px) # {} =>
        \E a \in PrimaryPoints(px) :
          /\ \A b \in PrimaryPoints(px) : pano.xyz[a].dist <= pano.xyz[b].dist
          /\ ColourAt(px) = Colour255(a)

-----------------------------------------------------------------------------
(* generate_rot_points (src/utils.py 371-414)                              *)

\* Angles are counted in quarter turns (pi / 2), so that every rotation
\* matrix of the model is exact; the grids of init_dict are those whose
\* angles are whole quarter turns.  An axis of init_dict is its num_*, min_*
\* and max_*.
AxisConfigs(nums, mins, spans) ==
  {c \in [num : nums, min : mins, max : {m + sp : m \in mins, sp \in spans}] :
     /\ (c.max - c.min) \in spans
     /\ (c.max - c.min) % c.num = 0}

YawConfigs == AxisConfigs({1, 2, 4}, {-1, 0, 1}, {4})

PitchConfigs == AxisConfigs({1, 2}, {-1, 0}, {2})

RollConfigs == AxisConfigs({1, 2, 4}, {-2, 0}, {4})

InitRot ==
  \E yaw_only \in BOOLEAN, yaw \in YawConfigs, pitch \in PitchConfigs,
     roll \in RollConfigs :
    /\ rotgen = [pc |-> "call", yaw_only |-> yaw_only,
                 yaw |-> yaw, pitch |-> pitch, roll |-> roll,
                 status |-> "none", grid |-> <<>>, dedup |-> <<>>,
                 rot_arr |-> <<>>]
    /\ search = Idle
    /\ pano = Idle
    /\ octree = Idle
    /\ call = Idle

\* torch.cos and torch.sin of k quarter turns.
Cos4(k) == CASE k % 4 = 0 -> 1 [] k % 4 = 2 -> -1 [] OTHER -> 0

Sin4(k) == CASE k % 4 = 1 -> 1 [] k % 4 = 3 -> -1 [] OTHER -> 0

MatMul(A, B) ==
  [i \in 1..3 |-> [j \in 1..3 |->
     A[i][1] * B[1][j] + A[i][2] * B[2][j] + A[i][3] * B[3][j]]]

MatVec(A, v) ==
  [i \in 1..3 |-> A[i][1] * v[1] + A[i][2] * v[2] + A[i][3] * v[3]]

Transpose(A) == [i \in 1..3 |-> [j \in 1..3 |-> A[j][i]]]

\* Lines 548-577: R = RZ(yaw) RY(pitch) RX(roll).
rot_from_ypr(ypr) ==
  LET yaw == ypr[1]
      pitch == ypr[2]
      roll == ypr[3]
      RX == << <<1, 0, 0>>,
               <<0, Cos4(roll), -Sin4(roll)>>,
               <<0, Sin4(roll), Cos4(roll)>> >>
      RY == << <<Cos4(pitch), 0, Sin4(pitch)>>,
               <<0, 1, 0>>,
               <<-Sin4(pitch), 0, Cos4(pitch)>> >>
      RZ == << <<Cos4(yaw), -Sin4(yaw), 0>>,
               <<Sin4(yaw), Cos4(yaw), 0>>,
               <<0, 0, 1>> >>
  IN MatMul(MatMul(RZ, RY), RX)

\* Lines 1088-1095 for H rows: (sin, cos) of the polar angle
\* i * pi / H + pi / (2 H) of row i, in thousandths.
RowSinCos(H) ==
  CASE H = 1 -> << <<1000, 0>> >>
    [] H = 2 -> << <<707, 707>>, <<707, -707>> >>
    [] H = 4 -> << <<383, 924>>, <<924, 383>>, <<924, -383>>, <<383, -924>> >>

\* For W columns: (cos, sin) of the azimuth pi - j * 2 pi / W - pi / W of
\* column j.
ColCosSin(W) ==
  CASE W = 1 -> << <<1, 0>> >>
    [] W = 2 -> << <<0, 1>>, <<0, -1>> >>

\* The unit ray A of cell n (row by row) of the H x W grid, in thousandths.
Ray(H, W, n) ==
  LET row == RowSinCos(H)[((n - 1) \div W) + 1]
      col == ColCosSin(W)[((n - 1) % W) + 1]
  IN <<row[1] * col[1], row[1] * col[2], row[2]>>

\* Lines 1085-1098 and 406: the rounded sampling grid of a rotation, as the
\* rays R^T A of its cells.  cloud2idx and the rounding to three decimals
\* are taken to give equal grids for equal rays and different grids for
\* different rays.
compute_sampling_grid(ypr, num_split_h, num_split_w) ==
  [n \in 1..(num_split_h * num_split_w) |->
     MatVec(Transpose(rot_from_ypr(ypr)), Ray(num_split_h, num_split_w, n))]

\* The order of sorted(): the signatures compared entry by entry.
SigEntry(sig, e) == sig[((e - 1) \div 3) + 1][((e - 1) % 3) + 1]

SigLess(a, b) ==
  \E e \in 1..(3 * Len(a)) :
    /\ SigEntry(a, e) < SigEntry(b, e)
    /\ \A d \in 1..(e - 1) : SigEntry(a, d) = SigEntry(b, d)

\* sorted(set(rot_list))
RECURSIVE SortedSet(_)
SortedSet(S) ==
  IF S = {} THEN <<>>
  ELSE LET least == CHOOSE a \in S : \A b \in S \ {a} : SigLess(a, b)
       IN <<least>> \o SortedSet(S \ {least})

\* rot_list.index(rot_mtx): the first position that holds it (0-based).
IndexIn(list, x) ==
  (CHOOSE n \in 1..Len(list) :
     list[n] = x /\ \A m \in 1..(n - 1) : list[m] # x) - 1

\* Every position of rot_list kept.
ValidRotIdxAll(rot_list) == [n \in 1..Len(rot_list) |-> n - 1]

\* Line 407: valid_rot_idx
ValidRotIdx(rot_list) ==
  LET sigs == SortedSet(Range(rot_list))
  IN [k \in 1..Len(sigs) |-> IndexIn(rot_list, sigs[k])]

\* Lines 391-399: the yaw x pitch x roll grid, roll changing fastest.
AxisAngle(c, k) == c.min + (k * (c.max - c.min)) \div c.num

RotGrid(yaw, pitch, roll) ==
  [n \in 1..(yaw.num * pitch.num * roll.num) |->
     <<AxisAngle(yaw, (n - 1) \div (pitch.num * roll.num)),
       AxisAngle(pitch, ((n - 1) \div roll.num) % pitch.num),
       AxisAngle(roll, (n - 1) % roll.num)>>]

\* Line 411: torch.where(rot_arr.sum(-1) == 0.)[0]
ZeroSumRows(rot_arr) ==
  {n \in 0..(Len(rot_arr) - 1) :
     rot_arr[n + 1][1] + rot_arr[n + 1][2] + rot_arr[n + 1][3] = 0}

\* Line 412: rot_arr[[0, zero_idx]] = rot_arr[[zero_idx, 0]]
SwapRows(rot_arr, zero_idx) ==
  [n \in 1..Len(rot_arr) |->
     IF n = 1 THEN rot_arr[zero_idx + 1]
     ELSE IF n = zero_idx + 1 THEN rot_arr[1] ELSE rot_arr[n]]

\* yaw_only: lines 383-387, num_yaw angles k * 2 pi / num_yaw.
GenerateRotPointsYawOnly ==
  /\ rotgen.pc = "call"
  /\ rotgen.yaw_only
  /\ rotgen' = [rotgen EXCEPT
       !.pc = "done",
       !.status = "ok",
       !.rot_arr = [n \in 1..rotgen.yaw.num |->
                      <<((n - 1) * 4) \div rotgen.yaw.num, 0, 0>>]]
  /\ UNCHANGED <<search, pano, octree, call>>

\* 3 DoF: lines 389-412.  .item() raises unless exactly one row sums to 0.
GenerateRotPoints3DoF ==
  /\ rotgen.pc = "call"
  /\ ~rotgen.yaw_only
  /\ LET grid == RotGrid(rotgen.yaw, rotgen.pitch, rotgen.roll)
         rot_list == [n \in 1..Len(grid) |->
                        compute_sampling_grid(grid[n], rotgen.yaw.num,
                                              rotgen.pitch.num)]
         dedup == Gather(grid, ValidRotIdx(rot_list))
         zero == ZeroSumRows(dedup)
     IN IF Cardinality(zero) = 1
        THEN rotgen' = [rotgen EXCEPT
               !.pc = "done", !.status = "ok", !.grid = grid,
               !.dedup = dedup,
               !.rot_arr = SwapRows(dedup, CHOOSE z \in zero : TRUE)]
        ELSE rotgen' = [rotgen EXCEPT
               !.pc = "done", !.status = "error", !.grid = grid,
               !.dedup = dedup]
  /\ UNCHANGED <<search, pano, octree, call>>

NextRot ==
  \/ GenerateRotPointsYawOnly
  \/ GenerateRotPoints3DoF

SpecRot == InitRot /\ [][NextRot]_vars

-----------------------------------------------------------------------------
(* Properties of generate_rot_points                                       *)

RotReturned3DoF ==
  rotgen.pc = "done" /\ ~rotgen.yaw_only /\ rotgen.status = "ok"

SignatureOf(ypr) ==
  compute_sampling_grid(ypr, rotgen.yaw.num, rotgen.pitch.num)

Identity == <<0, 0, 0>>

\* t is s with two entries swapped (or s itself).
SwapOf(s, t) ==
  /\ Len(t) = Len(s)
  /\ \E a, b \in 1..Len(s) :
       t = [n \in 1..Len(s) |->
              IF n = a THEN s[b] ELSE IF n = b THEN s[a] ELSE s[n]]

\* C9: in 3-DoF mode the returned rotations have pairwise different rounded
\* sampling-grid signatures, every signature of the yaw x pitch x roll grid
\* is the signature of a returned rotation, and every returned rotation is a
\* rotation of the grid.
C9_OnePerSignature ==
  RotReturned3DoF =>
    /\ \A k, l \in 1..Len(rotgen.rot_arr) :
         k # l => SignatureOf(rotgen.rot_arr[k]) # SignatureOf(rotgen.rot_arr[l])
    /\ \A g \in Range(rotgen.grid) :
         \E k \in 1..Len(rotgen.rot_arr) :
           SignatureOf(rotgen.rot_arr[k]) = SignatureOf(g)
    /\ Range(rotgen.rot_arr) \subseteq Range(rotgen.grid)

\* Several rotations of the grid share a signature and several signatures
\* remain.
C9_Witness ==
  /\ RotReturned3DoF
  /\ Len(rotgen.rot_arr) > 2
  /\ Len(rotgen.rot_arr) < Len(rotgen.grid)

\* C10: in 3-DoF mode, if (0, 0, 0) is among the deduplicated candidates the
\* call returns them with (0, 0, 0) at index 0 and otherwise two entries
\* swapped; if it is not, the call still returns the deduplicated candidates.
C10_IdentityFirstOrUntouched ==
  (rotgen.pc = "done" /\ ~rotgen.yaw_only) =>
    /\ rotgen.status = "ok"
    /\ IF Identity \in Range(rotgen.dedup)
       THEN rotgen.rot_arr[1] = Identity /\ SwapOf(rotgen.dedup, rotgen.rot_arr)
       ELSE Range(rotgen.rot_arr) = Range(rotgen.dedup)
            /\ Len(rotgen.rot_arr) = Len(rotgen.dedup)

-----------------------------------------------------------------------------
(* generate_octree (src/utils.py 676-851)                                  *)

\* Bound of the octree model: the number of points of the cloud.
MaxCloud == 3

\* The points of a cloud lie on this lattice.  generate_octree uses the
\* cloud only through code.unique(dim=0), which sorts, so a cloud is given
\* as the set of its points.
OctLattice == {<<x, y, z>> : x \in 0..1, y \in {0, 1, 3}, z \in {0, 5}}

Axes == 1..3

Abs(a) == IF a < 0 THEN -a ELSE a

RECURSIVE Pow2(_)
Pow2(n) == IF n <= 0 THEN 1 ELSE 2 * Pow2(n - 1)

RECURSIVE SumOver(_, _)
SumOver(S, f) ==
  IF S = {} THEN 0
  ELSE LET x == CHOOSE y \in S : TRUE IN f[x] + SumOver(S \ {x}, f)

SetMax(S) == CHOOSE x \in S : \A y \in S : y <= x

SetMin(S) == CHOOSE x \in S : \A y \in S : x <= y

\* Lines 678-679.
XyzMin(xyz) ==
  LET m(a) == SetMin({p[a] : p \in xyz}) IN <<m(1), m(2), m(3)>>

XyzMax(xyz) ==
  LET m(a) == SetMax({p[a] : p \in xyz}) IN <<m(1), m(2), m(3)>>

\* xyz_max - xyz_min, twice xyz_length (line 682).
Extent(xyz) ==
  LET lo == XyzMin(xyz)
      hi == XyzMax(xyz)
  IN <<hi[1] - lo[1], hi[2] - lo[2], hi[3] - lo[3]>>

RECURSIVE CloudsUpTo(_)
CloudsUpTo(n) ==
  IF n = 0 THEN {{}}
  ELSE LET smaller == CloudsUpTo(n - 1)
       IN smaller \cup {c \cup {p} : c \in smaller, p \in OctLattice}

OctClouds == CloudsUpTo(MaxCloud) \ {{}}

\* With a zero extent line 685 divides by zero: the depths of line 687 are
\* conversions of inf and nan to integers.
Degenerate(xyz) == \E a \in Axes : Extent(xyz)[a] = 0

InitOctree ==
  \E xyz \in OctClouds, nmin \in {1} :
    /\ octree = [pc |-> "call", xyz |-> xyz, nmin |-> nmin, status |-> "none",
                 adaptive_nmax |-> <<>>, u_code |-> {}, empty_leaves |-> {},
                 empty_code |-> {}, inner_code |-> {}, empty_coords |-> {}]
    /\ search = Idle
    /\ pano = Idle
    /\ rotgen = Idle
    /\ call = Idle

\* The depth with 0.2 added where the source subtracts it.
CeilDepthAdded(nmin, ext, ext_min) ==
  LET Enough(d) == (5 * d - 1) * (5 * d - 1) * ext_min >= 25 * nmin * nmin * ext
  IN CHOOSE d \in 1..(nmin * ext + 1) : Enough(d) /\ (d = 1 \/ ~Enough(d - 1))

\* Lines 684-687: ceil(nmin * sqrt(length / min length) - 0.2), the least d
\* with d + 0.2 >= nmin * sqrt(ext / ext_min), that is with
\* (5 d + 1)^2 * ext_min >= 25 * nmin^2 * ext.
CeilDepth(nmin, ext, ext_min) ==
  LET Enough(d) == (5 * d + 1) * (5 * d + 1) * ext_min >= 25 * nmin * nmin * ext
  IN CHOOSE d \in 0..(nmin * ext) : Enough(d) /\ (d = 0 \/ ~Enough(d - 1))

\* Line 687: adaptive_nmax before the adjustment.
CeilNmax(xyz, nmin) ==
  LET ext == Extent(xyz)
      ext_min == SetMin({ext[a] : a \in Axes})
  IN <<CeilDepth(nmin, ext[1], ext_min),
       CeilDepth(nmin, ext[2], ext_min),
       CeilDepth(nmin, ext[3], ext_min)>>

\* Line 689.
TooFewLeaves(depths) == Pow2(depths[1] + depths[2] + depths[3]) < 256

\* Lines 687-690: adaptive_nmax, one more on every axis if 2 ** sum < 256.
AdaptiveNmax(xyz, nmin) ==
  LET raw == CeilNmax(xyz, nmin)
  IN IF TooFewLeaves(raw)
     THEN <<raw[1] + 1, raw[2] + 1, raw[3] + 1>> ELSE raw

Nmax(an) == SetMax({an[a] : a \in Axes})

\* Coordinates of the model are the source's multiplied by 2 * 2^nmax, so
\* that every plane of the tree is a whole number: a point x - xyz_med is
\* (2 x - xyz_min - xyz_max) * 2^nmax.
NewXyz(p, xyz, nmax) ==
  LET lo == XyzMin(xyz)
      hi == XyzMax(xyz)
      n(a) == (2 * p[a] - lo[a] - hi[a]) * Pow2(nmax)
  IN <<n(1), n(2), n(3)>>

\* valid_axis = depth < adaptive_nmax
ValidAxes(depth, an) == {a \in Axes : depth < an[a]}

\* The position (count) of axis a among the valid axes.
CountOf(a, depth, an) == Cardinality({b \in ValidAxes(depth, an) : b < a})

\* Lines 715-721: the bit of a code value for the valid axis number count.
BitOf(value, count) ==
  CASE count = 0 -> (value % 4) % 2
    [] count = 1 -> (value % 4) \div 2
    [] OTHER -> value \div 4

\* The length 2^(adaptive_nmax - depth) / scaler with the exponent not
\* lowered by one.
CellOffsetWhole(ext_a, nmax, depth) == ext_a * Pow2(nmax - depth)

\* 2^(adaptive_nmax[a] - depth - 1) / scaler[a] = xyz_length[a] / 2^(depth+1)
\* (lines 724 and 823), in the coordinates of the model.
CellOffset(ext_a, nmax, depth) == ext_a * Pow2(nmax - depth - 1)

\* The location with 2 ** i for the axis i in place of 2 ** count.
check_locationByAxis(point, depth, plane, an) ==
  SumOver(ValidAxes(depth, an),
          [a \in Axes |-> IF point[a] >= plane[a] THEN Pow2(a - 1) ELSE 0])

\* Lines 699-706.
check_location(point, depth, plane, an) ==
  SumOver(ValidAxes(depth, an),
          [a \in Axes |->
             IF point[a] >= plane[a] THEN Pow2(CountOf(a, depth, an)) ELSE 0])

\* Lines 709-726.
update_planes(value, depth, plane, an, ext) ==
  LET new(a) ==
        IF a \in ValidAxes(depth, an)
        THEN plane[a] + (2 * BitOf(value, CountOf(a, depth, an)) - 1)
                          * CellOffset(ext[a], Nmax(an), depth)
        ELSE plane[a]
  IN <<new(1), new(2), new(3)>>

\* Lines 839-841: the code of one point from depth on.
RECURSIVE PointCode(_, _, _, _, _)
PointCode(point, depth, plane, an, ext) ==
  IF depth = Nmax(an) THEN <<>>
  ELSE LET value == check_location(point, depth, plane, an)
       IN <<value>> \o
          PointCode(point, depth + 1,
                    update_planes(value, depth, plane, an, ext), an, ext)

\* The middle one of three depths (torch.median).
Median3(an) ==
  CHOOSE m \in {an[a] : a \in Axes} :
    /\ Cardinality({a \in Axes : an[a] <= m}) >= 2
    /\ Cardinality({a \in Axes : an[a] >= m}) >= 2

\* Lines 832-834: array_shape[depth], 8 for the first nmin levels, 4 up to
\* nmed and 2 up to nmax.
ArrayShape(depth, an) ==
  IF depth < SetMin({an[a] : a \in Axes}) THEN 8
  ELSE IF depth < Median3(an) THEN 4 ELSE 2

\* Lines 832-835 and 845: every index of empty_inds, from depth on.
RECURSIVE AllCodes(_, _)
AllCodes(depth, an) ==
  IF depth = Nmax(an) THEN {<<>>}
  ELSE LET rest == AllCodes(depth + 1, an)
       IN {<<v>> \o r : v \in 0..(ArrayShape(depth, an) - 1), r \in rest}

\* The empty codes with the occupied ones left in.
EmptyLeavesAll(u_code, an) == AllCodes(0, an)

\* Lines 843-845: empty_inds is False at the occupied codes, and the empty
\* codes are the indices where it is still True.
EmptyLeaves(u_code, an) == AllCodes(0, an) \ u_code

Prefix(code, j) == SubSeq(code, 1, j)

\* The count with the last branch one power of two short.
MergeCountHalved(i, j, nmin, nmed, nmax) ==
  IF j < nmin
    THEN Pow2(nmax - nmed) * Pow2(2 * (nmed - nmin))
           * Pow2(3 * (i + nmin - nmax + 1))
  ELSE IF j < nmed
    THEN Pow2(nmax - nmed) * Pow2(2 * (i + nmed - nmax + 1))
  ELSE Pow2(i)

\* Lines 911-914 of generate_octree_2d, with i = nmax - 1 - j.
MergeCount2d(i, j, nmin, nmax) ==
  IF j < nmin THEN Pow2(nmax - nmin) * Pow2(2 * (i + nmin - nmax + 1))
  ELSE Pow2(i + 1)

\* Lines 1009-1010 of generate_octree_2d: array_shape[depth].
ArrayShape2d(depth, nmin) == IF depth < nmin THEN 4 ELSE 2

\* Lines 735-740, with i = nmax - 1 - j.
MergeCount(i, j, nmin, nmed, nmax) ==
  IF j < nmin
    THEN Pow2(nmax - nmed) * Pow2(2 * (nmed - nmin))
           * Pow2(3 * (i + nmin - nmax + 1))
  ELSE IF j < nmed
    THEN Pow2(nmax - nmed) * Pow2(2 * (i + nmed - nmax + 1))
  ELSE Pow2(i + 1)

\* Line 734 and 742 within the rows of one top-level octant: the prefixes
\* of j levels that counts >= merge_count holds for.
FullPrefixes(group, j, merge_count) ==
  {pre \in {Prefix(r[2], j) : r \in group} :
     Cardinality({r \in group : Prefix(r[2], j) = pre}) >= merge_count}

\* Lines 733-743: the rows of merged_code after the passes i, i+1, ...; a
\* row is a pair of its number (the empty leaf it began as) and its present
\* code.  The rows are in sorted order, so rows with one prefix are
\* consecutive and unique_consecutive counts all of them; as j >= 1 they
\* lie in one top-level octant.
RECURSIVE MergePasses(_, _, _, _, _)
MergePasses(rows, i, nmin, nmed, nmax) ==
  LET j == nmax - 1 - i
  IN IF j < 1 THEN rows
     ELSE LET full ==
                UNION {FullPrefixes({r \in rows : r[2][1] = v}, j,
                                    MergeCount(i, j, nmin, nmed, nmax)) :
                         v \in {r[2][1] : r \in rows}}
              merged == {<<r[1], IF Prefix(r[2], j) \in full
                                 THEN Prefix(r[2], j)
                                        \o [k \in 1..(nmax - j) |-> -1]
                                 ELSE r[2]>> : r \in rows}
          IN MergePasses(merged, i + 1, nmin, nmed, nmax)

\* Lines 729-747.
merge_code(code, nmin, nmed, nmax) ==
  {r[2] : r \in MergePasses({<<leaf, leaf>> : leaf \in code}, 0,
                            nmin, nmed, nmax)}

\* Lines 757-767: the while loop.  Reading column nmax is out of range.
RECURSIVE SameParent(_, _, _, _)
SameParent(same_parent, curr, depth, nmax) ==
  IF depth = nmax THEN [depth |-> depth, same_parent |-> same_parent]
  ELSE LET same_par_inds ==
             {c \in same_parent : c[depth + 1] = curr[depth + 1]}
       IN IF same_par_inds = {}
          THEN [depth |-> depth, same_parent |-> same_parent]
          ELSE SameParent(same_par_inds, curr, depth + 1, nmax)

\* Lines 772-786: the location of a code down to level depth.
CodeLoc(c, depth, an) ==
  LET loc(a) ==
        SumOver({k \in 0..depth : a \in ValidAxes(k, an) /\ c[k + 1] # -1},
                [k \in 0..depth |->
                   Pow2(Nmax(an) - k)
                     * (2 * BitOf(c[k + 1], CountOf(a, k, an)) - 1)])
  IN <<loc(1), loc(2), loc(3)>>

\* Lines 757-789 for one empty code: the depth the while loop stops at, the
\* location of the empty code and the range of the locations of the
\* occupied codes that share its longest matching prefix.
Locations(code, curr, an) ==
  LET found == SameParent(code, curr, 0, Nmax(an))
      locs == {CodeLoc(c, found.depth, an) : c \in found.same_parent}
  IN [depth |-> found.depth,
      empty_loc |-> CodeLoc(curr, found.depth, an),
      max_loc |-> <<SetMax({l[1] : l \in locs}), SetMax({l[2] : l \in locs}),
                    SetMax({l[3] : l \in locs})>>,
      min_loc |-> <<SetMin({l[1] : l \in locs}), SetMin({l[2] : l \in locs}),
                    SetMin({l[3] : l \in locs})>>]

\* The test without the comparison on the negative side.
IsInnerPlusOnly(code, curr, an) ==
  LET at == Locations(code, curr, an)
  IN /\ at.depth > 0
     /\ ~\E a \in Axes : at.max_loc[a] > 0 /\ at.max_loc[a] < at.empty_loc[a]

\* Lines 755-795 for one empty code: TRUE if it is kept.
IsInner(code, curr, an) ==
  LET at == Locations(code, curr, an)
  IN /\ at.depth > 0
     /\ ~\E a \in Axes : at.max_loc[a] > 0 /\ at.max_loc[a] < at.empty_loc[a]
     /\ ~\E a \in Axes : at.min_loc[a] < 0 /\ at.min_loc[a] > at.empty_loc[a]

\* Lines 750-797.
delete_outer_code(code, empty_code, an) ==
  {curr \in empty_code : IsInner(code, curr, an)}

\* Lines 800-827 for one code.
CodeCoords(c, an, ext) ==
  LET coord(a) ==
        SumOver({i \in 0..(Nmax(an) - 1) :
                   a \in ValidAxes(i, an) /\ c[i + 1] # -1},
                [i \in 0..(Nmax(an) - 1) |->
                   (2 * BitOf(c[i + 1], CountOf(a, i, an)) - 1)
                     * CellOffset(ext[a], Nmax(an), i)])
  IN <<coord(1), coord(2), coord(3)>>

code2coords(code, an, ext) == {CodeCoords(c, an, ext) : c \in code}

\* xyz_med in the coordinates of the model.
XyzMed(xyz, nmax) ==
  LET lo == XyzMin(xyz)
      hi == XyzMax(xyz)
  IN <<(lo[1] + hi[1]) * Pow2(nmax), (lo[2] + hi[2]) * Pow2(nmax),
       (lo[3] + hi[3]) * Pow2(nmax)>>

\* Lines 676-851.  With a zero extent the depths are the integers that inf
\* and nan convert to (the least or the greatest 64-bit integer, or 0); no
\* tensor of line 830 or 835 can be made with them and the call raises.
\* Line 844 raises IndexError for a code that is no index of empty_inds,
\* and line 767 for a loop that reaches column nmax.
GenerateOctree ==
  /\ octree.pc = "call"
  /\ IF Degenerate(octree.xyz)
     THEN octree' = [octree EXCEPT !.pc = "done", !.status = "error"]
     ELSE LET xyz == octree.xyz
              ext == Extent(xyz)
              an == AdaptiveNmax(xyz, octree.nmin)
              nmax == Nmax(an)
              nmin == SetMin({an[a] : a \in Axes})
              nmed == Median3(an)
              xyz_med == XyzMed(xyz, nmax)
              Raise(u_code) ==
                octree' = [octree EXCEPT !.pc = "done",
                                         !.status = "IndexError",
                                         !.adaptive_nmax = an,
                                         !.u_code = u_code]
          IN \E u_code \in
                  {{PointCode(NewXyz(p, xyz, nmax), 0, <<0, 0, 0>>, an, ext) :
                      p \in xyz}} :
               IF ~(u_code \subseteq AllCodes(0, an)) THEN Raise(u_code)
               ELSE
                 \E empty_leaves \in {EmptyLeaves(u_code, an)} :
                 \E merged \in {merge_code(empty_leaves, nmin, nmed, nmax)} :
                   IF \E curr \in merged :
                        SameParent(u_code, curr, 0, nmax).depth = nmax
                   THEN Raise(u_code)
                   ELSE
                     \E inner \in {delete_outer_code(u_code, merged, an)} :
                       octree' = [octree EXCEPT
                         !.pc = "done",
                         !.status = "returned",
                         !.adaptive_nmax = an,
                         !.u_code = u_code,
                         !.empty_leaves = empty_leaves,
                         !.empty_code = merged,
                         !.inner_code = inner,
                         !.empty_coords =
                            {<<c[1] + xyz_med[1], c[2] + xyz_med[2],
                               c[3] + xyz_med[3]>> :
                               c \in code2coords(inner, an, ext)}]
  /\ UNCHANGED <<search, pano, rotgen, call>>

NextOctree == GenerateOctree

SpecOctree == InitOctree /\ [][NextOctree]_vars

OctreeReturned == octree.pc = "done" /\ octree.status = "returned"

\* The bounding box of the cloud in the coordinates of the model.
BoxLow(a) == 2 * XyzMin(octree.xyz)[a] * Pow2(Nmax(octree.adaptive_nmax))

BoxHigh(a) == 2 * XyzMax(octree.xyz)[a] * Pow2(Nmax(octree.adaptive_nmax))

\* C8: every candidate point that generate_octree returns lies strictly
\* inside the bounding box of the cloud, on every axis.
C8_StrictlyInsideBox ==
  OctreeReturned =>
    \A c \in octree.empty_coords : \A a \in Axes :
      BoxLow(a) < c[a] /\ c[a] < BoxHigh(a)

\* A call that returns the centre of a leaf and the centre of a merged cell
\* of a tree whose axes differ in depth, for a cloud with a point between two
\* faces of its box.
C8_Witness ==
  /\ OctreeReturned
  /\ \E c \in octree.inner_code : c[Len(c)] = -1
  /\ \E c \in octree.inner_code : \A k \in 1..Len(c) : c[k] # -1
  /\ Cardinality(octree.empty_coords) > 1
  /\ octree.adaptive_nmax[1] # octree.adaptive_nmax[3]
  /\ \E p \in octree.xyz, a \in Axes :
        /\ XyzMin(octree.xyz)[a] < p[a]
        /\ p[a] < XyzMax(octree.xyz)[a]

\* The branching factor of level depth: 2 to the number of axes that still
\* subdivide there.
Branching(depth) == Pow2(Cardinality(ValidAxes(depth, octree.adaptive_nmax)))

\* The codes of the adaptive code space.
Addressable(code) ==
  /\ Len(code) = Nmax(octree.adaptive_nmax)
  /\ \A k \in 1..Len(code) : code[k] >= 0 /\ code[k] < Branching(k - 1)

\* C23: every code of a point is an index of the adaptive code space, and
\* before merging the empty codes are exactly the codes of that space no
\* point has: occupied and empty codes are disjoint and cover the space.
C23_CodesPartitionSpace ==
  (octree.pc = "done" /\ octree.status # "error") =>
    /\ octree.status = "returned"
    /\ \A c \in octree.u_code : Addressable(c)
    /\ \A c \in octree.empty_leaves : Addressable(c) /\ c \notin octree.u_code
    /\ Cardinality(octree.u_code) + Cardinality(octree.empty_leaves)
         = Pow2(octree.adaptive_nmax[1] + octree.adaptive_nmax[2]
                  + octree.adaptive_nmax[3])

\* A tree with levels of branching 8, 4 and 2, two occupied codes and some
\* empty ones, whose shallowest axis is the first.
C23_Witness ==
  /\ OctreeReturned
  /\ {Branching(k) : k \in 0..(Nmax(octree.adaptive_nmax) - 1)} = {8, 4, 2}
  /\ Cardinality(octree.u_code) >= 2
  /\ octree.empty_leaves # {}
  /\ octree.adaptive_nmax[1] < octree.adaptive_nmax[2]

\* The number of levels of a code that merge_code left.
KeptLevels(code) == Cardinality({k \in 1..Len(code) : code[k] # -1})

\* The half width, on axis a, of the cell a code with j levels names.
HalfWidth(a, j) ==
  LET an == octree.adaptive_nmax
  IN IF j >= an[a] THEN CellOffset(Extent(octree.xyz)[a], Nmax(an), an[a] - 1)
     ELSE 2 * CellOffset(Extent(octree.xyz)[a], Nmax(an), j)

\* A point of the cloud lies in the cell of a code: a cell holds its lower
\* faces, and its upper faces where they are faces of the bounding box
\* (check_location compares with >=).
InCell(p, code) ==
  LET an == octree.adaptive_nmax
      point == NewXyz(p, octree.xyz, Nmax(an))
      centre == CodeCoords(code, an, Extent(octree.xyz))
  IN \A a \in Axes :
       /\ centre[a] - HalfWidth(a, KeptLevels(code)) <= point[a]
       /\ \/ point[a] < centre[a] + HalfWidth(a, KeptLevels(code))
          \/ /\ point[a] = centre[a] + HalfWidth(a, KeptLevels(code))
             /\ p[a] = XyzMax(octree.xyz)[a]

\* The leaves of the two-dimensional tree under a prefix of j levels.
RECURSIVE LeavesUnder2d(_, _, _)
LeavesUnder2d(j, nmin, nmax) ==
  IF j >= nmax THEN 1
  ELSE ArrayShape2d(j, nmin) * LeavesUnder2d(j + 1, nmin, nmax)

\* The depths generate_octree_2d can have: 4 on the shorter axis and at most
\* 8 on the longer (lines 856, 869-874).
Depths2d == {<<4, nmax>> : nmax \in 4..8}

\* C24: merge_code sets the levels from j on of a group of empty codes to -1
\* only when every leaf under the group's prefix is empty: no occupied code
\* shares the prefix of a merged code, and no point of the cloud lies in the
\* cell of an empty code, merged or not.  In the two-dimensional variant the
\* count a group must reach is the number of leaves under its prefix.
C24_MergedCellsAreEmpty ==
  /\ OctreeReturned =>
       \A c \in octree.empty_code :
         /\ KeptLevels(c) >= 1
         /\ \A k \in 1..Len(c) : c[k] = -1 <=> k > KeptLevels(c)
         /\ \A u \in octree.u_code : Prefix(u, KeptLevels(c)) # Prefix(c, KeptLevels(c))
         /\ \A p \in octree.xyz : ~InCell(p, c)
  /\ \A d \in Depths2d : \A j \in 1..(d[2] - 1) :
       MergeCount2d(d[2] - 1 - j, j, d[1], d[2]) = LeavesUnder2d(j, d[1], d[2])

\* Codes of every kind come out: a whole top-level octant merged, a returned
\* code merged from a level of branching 4 or 2 on, and a returned empty leaf
\* that could not be merged because a code under its parent is occupied.
C24_Witness ==
  /\ OctreeReturned
  /\ LET nmax == Nmax(octree.adaptive_nmax)
     IN /\ \E c \in octree.empty_code : KeptLevels(c) = 1
        /\ \E c \in octree.inner_code :
             KeptLevels(c) < nmax /\ Branching(KeptLevels(c)) < 8
        /\ \E c \in octree.inner_code : \E u \in octree.u_code :
             KeptLevels(c) = nmax /\ Prefix(u, nmax - 1) = Prefix(c, nmax - 1)

\* The locations delete_outer_code compares for an empty code.
LocationsOf(c) == Locations(octree.u_code, c, octree.adaptive_nmax)

\* No occupied code lies in the top-level octant of an empty code.
OctantUnoccupied(c) == \A u \in octree.u_code : u[1] # c[1]

\* On axis a the empty code lies outside the range of the occupied codes
\* that share its longest matching prefix.
OutsideRange(c, a) ==
  \/ LocationsOf(c).empty_loc[a] > LocationsOf(c).max_loc[a]
  \/ LocationsOf(c).empty_loc[a] < LocationsOf(c).min_loc[a]

\* On axis a the empty code lies farther from the centre plane of the tree
\* than every occupied code that shares its longest matching prefix.
FartherOut(c, a) ==
  /\ Abs(LocationsOf(c).empty_loc[a]) > Abs(LocationsOf(c).max_loc[a])
  /\ Abs(LocationsOf(c).empty_loc[a]) > Abs(LocationsOf(c).min_loc[a])

\* C25: delete_outer_code discards every empty code with no occupied code
\* in its top-level octant and every empty code whose location on some axis
\* lies outside the range of the occupied codes sharing its longest matching
\* prefix, so that no returned code lies outside that range.
C25_NoCellOutsideOccupiedRange ==
  OctreeReturned =>
    \A c \in octree.empty_code :
      (OctantUnoccupied(c) \/ \E a \in Axes : OutsideRange(c, a))
        => c \notin octree.inner_code

\* C25 as the code has it: the codes discarded are those with no occupied
\* code in their top-level octant and those that lie, on some axis, farther
\* from the centre plane than the occupied codes sharing their longest
\* matching prefix; every other empty code is returned, among them codes
\* that lie outside the occupied range on the side of the centre.
C25_DiscardsFartherOutOnly ==
  OctreeReturned =>
    /\ octree.inner_code \subseteq octree.empty_code
    /\ \A c \in octree.empty_code :
         c \notin octree.inner_code
           <=> (OctantUnoccupied(c) \/ \E a \in Axes : FartherOut(c, a))

\* A call that discards a whole unoccupied octant, discards a code farther
\* out than its occupied neighbours, and returns a code that lies outside
\* their range towards the centre.
C25_Witness ==
  /\ OctreeReturned
  /\ \E c \in octree.empty_code \ octree.inner_code : OctantUnoccupied(c)
  /\ \E c \in octree.empty_code \ octree.inner_code :
       ~OctantUnoccupied(c) /\ \E a \in Axes : FartherOut(c, a)
  /\ \E c \in octree.inner_code : \E a \in Axes : OutsideRange(c, a)

\* The depth at which the while loop of lines 764-767 stops for an empty
\* code; nmax stands for a read of column nmax, which no code has.
LoopDepth(c) ==
  SameParent(octree.u_code, c, 0, Nmax(octree.adaptive_nmax)).depth

\* C30: for every empty code, leaf or merged, the prefix-matching loop of
\* delete_outer_code stops at a depth of at most nmax - 1, so it never
\* reads a column of index nmax or beyond and the call raises no IndexError.
C30_PrefixLoopStaysInRange ==
  (octree.pc = "done" /\ octree.status # "error") =>
    /\ octree.status = "returned"
    /\ \A c \in octree.empty_code \cup octree.empty_leaves :
         LoopDepth(c) <= Nmax(octree.adaptive_nmax) - 1

\* The loop runs to the last column for an empty leaf whose every other
\* level matches an occupied code, and to the last kept column for a merged
\* code.
C30_Witness ==
  /\ OctreeReturned
  /\ \E c \in octree.empty_code :
       /\ KeptLevels(c) = Len(c)
       /\ LoopDepth(c) = Nmax(octree.adaptive_nmax) - 1
  /\ \E c \in octree.empty_code :
       KeptLevels(c) < Len(c) /\ LoopDepth(c) = KeptLevels(c) - 1

-----------------------------------------------------------------------------
(* process_split_intersection (src/utils.py 1387-1411)                     *)

\* Bounds: the number of patches of an intersection vector and the largest
\* intersection value, in units of the smallest one.
MaxPatches == 4

MaxIntersect == 2

Stats == {"mean", "midhinge", "median", "interquartile", "winsorized"}

RECURSIVE Vectors(_, _)
Vectors(n, values) ==
  IF n = 0 THEN {<<>>}
  ELSE {Append(t, v) : t \in Vectors(n - 1, values), v \in values}

RECURSIVE Gcd(_, _)
Gcd(a, b) == IF b = 0 THEN a ELSE Gcd(b, a % b)

\* A Python float that is the quotient n / d of whole numbers, d > 0.
Quotient(n, d) ==
  LET g == Gcd(n, d) IN [kind |-> "value", num |-> n \div g, den |-> d \div g]

\* The mean of an empty tensor.
NaN == [kind |-> "nan", num |-> 0, den |-> 1]

\* An index out of range, or the median of an empty tensor.
Raised == [kind |-> "error", num |-> 0, den |-> 1]

RECURSIVE SeqSum(_)
SeqSum(t) == IF t = <<>> THEN 0 ELSE Head(t) + SeqSum(Tail(t))

\* Tensor.sort()[0]
RECURSIVE SortAscending(_)
SortAscending(t) ==
  IF t = <<>> THEN <<>>
  ELSE LET m == CHOOSE x \in Range(t) : \A y \in Range(t) : x <= y
           i == CHOOSE k \in 1..Len(t) : t[k] = m
       IN <<m>> \o SortAscending(SubSeq(t, 1, i - 1) \o SubSeq(t, i + 1, Len(t)))

\* cand_intersect[cand_intersect != 0.0]
NonZero(t) == SelectSeq(t, LAMBDA x : x # 0)

\* The divisor len(cand_intersect), which counts the entries equal to 0 too.
CountAll(t) == Len(t)

\* cand_intersect.nonzero(as_tuple=False).shape[0]
NonZeroCount(t) == Len(NonZero(t))

\* int(n * low_cutoff) and int(n * high_cutoff) with the cutoffs 0.25, 0.75.
LowIdx(n) == n \div 4

HighIdx(n) == (3 * n) \div 4

\* Lines 1389-1411.  Element i of a sorted tensor c is c[i + 1].
process_split_intersection(cand_intersect, stat) ==
  LET c == SortAscending(NonZero(cand_intersect))
      n == Len(c)
      q1_idx == LowIdx(n)
      q3_idx == HighIdx(n)
  IN CASE stat = "mean" ->
            IF NonZeroCount(cand_intersect) # 0
            THEN Quotient(SeqSum(cand_intersect), NonZeroCount(cand_intersect))
            ELSE Quotient(0, 1)
       [] stat = "midhinge" ->
            IF n = 0 THEN Raised
            ELSE Quotient(c[q1_idx + 1] + c[q3_idx + 1], 2)
       [] stat = "median" ->
            IF n = 0 THEN Raised ELSE Quotient(c[(n - 1) \div 2 + 1], 1)
       [] stat = "interquartile" ->
            IF q1_idx >= q3_idx THEN NaN
            ELSE Quotient(SeqSum(SubSeq(c, q1_idx + 1, q3_idx)), q3_idx - q1_idx)
       [] stat = "winsorized" ->
            IF n = 0 THEN Raised
            ELSE LET low == [k \in 1..n |-> IF k <= q1_idx THEN c[q1_idx + 1] ELSE c[k]]
                     both == [k \in 1..n |-> IF k > q3_idx THEN low[q3_idx + 1] ELSE low[k]]
                 IN Quotient(SeqSum(both), n)

InitSplit ==
  \E n \in 0..MaxPatches, stat \in Stats :
    \E t \in Vectors(n, 0..MaxIntersect) :
      /\ call = [fn |-> "process_split_intersection", pc |-> "call",
                 cand_intersect |-> t, first |-> t, stat |-> stat,
                 hist_intersect |-> Raised, seen |-> {}]
      /\ search = Idle
      /\ pano = Idle
      /\ rotgen = Idle
      /\ octree = Idle

IsSplitCall == call.pc # "idle" /\ call.fn = "process_split_intersection"

ProcessSplitIntersection ==
  /\ IsSplitCall
  /\ call.pc = "call"
  /\ LET hist_intersect ==
           process_split_intersection(call.cand_intersect, call.stat)
     IN call' = [call EXCEPT !.pc = "done",
                             !.hist_intersect = hist_intersect,
                             !.seen = @ \cup {hist_intersect}]
  /\ UNCHANGED <<search, pano, rotgen, octree>>

\* The caller's next vector has one more patch with intersection 0.
AddZeroPatch ==
  /\ IsSplitCall
  /\ call.pc = "done"
  /\ Len(call.cand_intersect) < MaxPatches
  /\ \E i \in 0..Len(call.cand_intersect) :
       call' = [call EXCEPT
                  !.pc = "call",
                  !.cand_intersect =
                     SubSeq(@, 1, i) \o <<0>> \o SubSeq(@, i + 1, Len(@))]
  /\ UNCHANGED <<search, pano, rotgen, octree>>

\* The caller's next vector has one patch with intersection 0 less.
RemoveZeroPatch ==
  /\ IsSplitCall
  /\ call.pc = "done"
  /\ \E i \in 1..Len(call.cand_intersect) :
       /\ call.cand_intersect[i] = 0
       /\ call' = [call EXCEPT
                     !.pc = "call",
                     !.cand_intersect =
                        SubSeq(@, 1, i - 1) \o SubSeq(@, i + 1, Len(@))]
  /\ UNCHANGED <<search, pano, rotgen, octree>>

NextSplit == ProcessSplitIntersection \/ AddZeroPatch \/ RemoveZeroPatch

SpecSplit == InitSplit /\ [][NextSplit]_vars

\* C11: for every statistic the score of process_split_intersection is the
\* same for all vectors that differ only in entries equal to 0: it depends
\* on the non-zero entries alone.
C11_ZerosNeverChangeScore ==
  IsSplitCall =>
    /\ Cardinality(call.seen) <= 1
    /\ call.pc = "done" =>
         call.hist_intersect =
           process_split_intersection(NonZero(call.cand_intersect), call.stat)

\* A vector with three non-zero entries that is scored again after it has
\* got a zero entry more.
C11_Witness ==
  /\ IsSplitCall
  /\ call.pc = "done"
  /\ call.hist_intersect.kind = "value"
  /\ NonZeroCount(call.cand_intersect) >= 3
  /\ Len(call.cand_intersect) > Len(call.first)

-----------------------------------------------------------------------------
(* make_score_map_3d (src/utils.py 1268-1384)                              *)

\* Bound: the number of (translation, rotation, query image) comparisons.
MaxComparisons == 3

\* The patches of a view (num_split_h * num_split_w of them).
ScorePatches == 1..2

\* histogram_intersection of a patch: a sum of minima of bins, never
\* negative, in units of the smallest non-zero value.
IntersectValues == 0..2

QLess(a, b) == a.num * b.den < b.num * a.den

QAdd(a, b) == Quotient(a.num * b.den + b.num * a.den, a.den * b.den)

QSub(a, b) == Quotient(a.num * b.den - b.num * a.den, a.den * b.den)

\* a * m / d
QScale(a, m, d) == Quotient(a.num * m, a.den * d)

QMin(S) == CHOOSE a \in S : \A b \in S : ~QLess(b, a)

QMax(S) == CHOOSE a \in S : \A b \in S : ~QLess(a, b)

InitScoreMap ==
  \E num_trans \in 1..MaxComparisons, num_rot \in 1..MaxComparisons,
     num_img \in 1..MaxComparisons, num_points \in 1..MaxPoints :
    /\ num_trans * num_rot * num_img <= MaxComparisons
    /\ call = [fn |-> "make_score_map_3d", pc |-> "loop",
               len_trans |-> num_trans, len_rot |-> num_rot,
               len_img |-> num_img, i |-> 0, j |-> 0, q |-> 0,
               total_count |-> 0,
               quant_proj_coords |-> [p \in 1..num_points |-> 1],
               update |-> [p \in 1..num_points |-> Quotient(0, 1)],
               accumulated |-> <<>>,
               score_cloud |-> [p \in 1..num_points |-> Quotient(0, 1)]]
    /\ search = Idle
    /\ pano = Idle
    /\ rotgen = Idle
    /\ octree = Idle

IsScoreMapCall == call.pc # "idle" /\ call.fn = "make_score_map_3d"

\* The update read as it is, entries equal to 0 included.
KeepZeroUpdate(update, score_cloud) == update

\* Line 1378: update[update == 0.] = score_cloud[update == 0.]
ReplaceZeroUpdate(update, score_cloud) ==
  [p \in DOMAIN update |->
     IF update[p].num = 0 THEN score_cloud[p] ELSE update[p]]

\* Line 1379.
RunningAverage(score_cloud, update, total_count) ==
  [p \in DOMAIN score_cloud |->
     QAdd(QScale(score_cloud[p], total_count - 1, total_count),
          QScale(update[p], 1, total_count))]

\* Lines 1339-1380: one pass of the innermost loop, with the projection of
\* the points (lines 1342-1349) when the pass is the first of a translation.
ScoreMapCompare ==
  /\ IsScoreMapCall
  /\ call.pc = "loop"
  /\ \E inv_hist \in Vectors(Cardinality(ScorePatches), IntersectValues),
        quant \in IF call.j = 0 /\ call.q = 0
                  THEN [DOMAIN call.score_cloud -> ScorePatches]
                  ELSE {call.quant_proj_coords} :
       LET total_count == call.total_count + 1
           read == [p \in DOMAIN quant |-> Quotient(inv_hist[quant[p]], 1)]
           update == ReplaceZeroUpdate(read, call.score_cloud)
           last_q == call.q + 1 = call.len_img
           last_j == last_q /\ call.j + 1 = call.len_rot
           last_i == last_j /\ call.i + 1 = call.len_trans
       IN call' = [call EXCEPT
            !.quant_proj_coords = [p \in DOMAIN quant |-> quant[p]],
            !.total_count = total_count,
            !.update = [p \in DOMAIN read |-> read[p]],
            !.score_cloud =
               [p \in DOMAIN read |->
                  RunningAverage(call.score_cloud, update, total_count)[p]],
            !.q = IF last_q THEN 0 ELSE call.q + 1,
            !.j = IF last_j THEN 0 ELSE IF last_q THEN call.j + 1 ELSE call.j,
            !.i = IF last_j THEN call.i + 1 ELSE call.i,
            !.pc = IF last_i THEN "normalize" ELSE "loop"]
  /\ UNCHANGED <<search, pano, rotgen, octree>>

\* Line 1383: 0 / 0 is nan.
NormalizeScore(score_cloud) ==
  LET lo == QMin(Range(score_cloud))
      hi == QMax(Range(score_cloud))
  IN [p \in DOMAIN score_cloud |->
        IF QSub(hi, lo).num = 0 THEN NaN
        ELSE LET a == QSub(score_cloud[p], lo)
                 b == QSub(hi, lo)
             IN Quotient(a.num * b.den, a.den * b.num)]

\* Lines 1382-1384.
ScoreMapNormalize ==
  /\ IsScoreMapCall
  /\ call.pc = "normalize"
  /\ call' = [call EXCEPT
       !.pc = "done",
       !.accumulated = call.score_cloud,
       !.score_cloud = [p \in DOMAIN call.score_cloud |->
                          NormalizeScore(call.score_cloud)[p]]]
  /\ UNCHANGED <<search, pano, rotgen, octree>>

NextScoreMap == ScoreMapCompare \/ ScoreMapNormalize

SpecScoreMap == InitScoreMap /\ [][NextScoreMap]_vars

ScoreMapReturned == IsScoreMapCall /\ call.pc = "done"

\* C12: every value of the score cloud that make_score_map_3d returns is in
\* [0, 1]; if the accumulated scores are not all equal, the least returned
\* value is exactly 0 and the greatest exactly 1.
C12_ScoresInUnitRange ==
  ScoreMapReturned =>
    /\ \A p \in DOMAIN call.score_cloud :
         /\ call.score_cloud[p].kind = "value"
         /\ 0 <= call.score_cloud[p].num
         /\ call.score_cloud[p].num <= call.score_cloud[p].den
    /\ Cardinality(Range(call.accumulated)) > 1 =>
         /\ \E p \in DOMAIN call.score_cloud : call.score_cloud[p] = Quotient(0, 1)
         /\ \E p \in DOMAIN call.score_cloud : call.score_cloud[p] = Quotient(1, 1)

\* C13: each comparison, taken in the nested order translation, rotation,
\* query image, is the n-th one and sets every score to
\* old * (n - 1) / n + update / n, but leaves the score of a point alone
\* whose update is 0.
C13_RunningAverageInOrder ==
  [][(IsScoreMapCall /\ call.pc = "loop") =>
       LET n == (call.i * call.len_rot + call.j) * call.len_img + call.q + 1
       IN /\ call'.total_count = n
          /\ \A p \in DOMAIN call.score_cloud :
               call'.score_cloud[p] =
                 IF call'.update[p].num = 0 THEN call.score_cloud[p]
                 ELSE QAdd(QScale(call.score_cloud[p], n - 1, n),
                           QScale(call'.update[p], 1, n))]_vars

\* The third comparison has just left a non-zero score alone (update 0) and
\* has changed the score of another point.
C13_Witness ==
  /\ IsScoreMapCall
  /\ call.total_count = 3
  /\ call.pc = "normalize"
  /\ \E p \in DOMAIN call.score_cloud :
       call.update[p].num = 0 /\ call.score_cloud[p].num # 0
  /\ \E p \in DOMAIN call.score_cloud : call.update[p].num # 0

-----------------------------------------------------------------------------
(* refine_sampling_coords (src/utils.py 1508-1563)                         *)

\* The (H, W) of the coordinate keys.
quantization == <<2, 2>>

\* Projected coordinates (i, j) of a point, in [-1, 1] x [-1, 1].
ImgIdxValues == {<<-1, -1>>, <<1, -1>>, <<-1, 0>>}

\* Distances from the camera.
RhoValues == 1..2

\* The rows of a batched call.
BatchRows == 1..2

\* What the name scatter_min is at the call: the function of torch_scatter,
\* which returns or raises a RuntimeError, or nothing at all because the
\* import of line 7 failed (lines 8-9 pass).
ScatterStates == {"returns", "raises", "missing"}

InitRefine ==
  \E n \in 1..MaxPoints, batched \in BOOLEAN, return_valid_mask \in BOOLEAN,
     scatter \in ScatterStates :
    \E rows \in [IF batched THEN BatchRows ELSE {1} ->
                   [1..n -> [img_idx : ImgIdxValues, rho : RhoValues]]] :
      /\ call = [fn |-> "refine_sampling_coords", pc |-> "call",
                 points |-> rows, batched |-> batched,
                 return_valid_mask |-> return_valid_mask, scatter |-> scatter,
                 status |-> "none", argmin |-> <<>>, valid_mask |-> <<>>]
      /\ search = Idle
      /\ pano = Idle
      /\ rotgen = Idle
      /\ octree = Idle

IsRefineCall == call.pc # "idle" /\ call.fn = "refine_sampling_coords"

\* ((x + 1.).clamp(min=0, max=2) / 2.0 * size).long()
QuantizeCoord(x, size) == (Min(Max(x + 1, 0), 2) * size) \div 2

\* Lines 1534 and 1550: (i-coordinate) * W + (j-coordinate).
CoordKey(img_idx) ==
  QuantizeCoord(img_idx[2], quantization[1]) * quantization[2]
    + QuantizeCoord(img_idx[1], quantization[2])

\* scatter_min(rho, coord_key)[1]: for every key from 0 to the largest one
\* the index (from 0) of a point of least rho among the points of the key,
\* or the number of points for a key without points.
RECURSIVE ScatterArgmin(_, _)
ScatterArgmin(row, num_keys) ==
  IF num_keys = 0 THEN {<<>>}
  ELSE LET group == {p \in 1..Len(row) :
                       CoordKey(row[p].img_idx) = num_keys - 1}
           least == {p \in group : \A o \in group : row[p].rho <= row[o].rho}
           winners == IF group = {} THEN {Len(row)} ELSE {p - 1 : p \in least}
       IN {Append(a, w) : a \in ScatterArgmin(row, num_keys - 1), w \in winners}

\* torch.arange(len(img_idx)) where the fallback should compute the minima.
ArangeFallback(row) == [p \in 1..Len(row) |-> p - 1]

\* valid_mask[argmin[argmin < n]] = True
ValidMask(argmin, n) ==
  [p \in 1..n |-> \E k \in 1..Len(argmin) : argmin[k] = p - 1]

\* Lines 1541-1545 and 1557-1563: what is returned for an argmin.
RefineReturn(argmin, n) ==
  call' = [call EXCEPT
     !.pc = "done",
     !.status = "returned",
     !.argmin =
        IF call.batched THEN argmin
        ELSE IF call.return_valid_mask THEN <<>>
        ELSE [b \in DOMAIN argmin |-> SelectSeq(argmin[b], LAMBDA a : a < n)],
     !.valid_mask =
        IF call.batched \/ call.return_valid_mask
        THEN [b \in DOMAIN argmin |-> ValidMask(argmin[b], n)]
        ELSE <<>>]

\* Lines 1529-1563.
RefineSamplingCoords ==
  /\ IsRefineCall
  /\ call.pc = "call"
  /\ LET rows == call.points
         n == Len(rows[1])
         num_keys == 1 + SetMax({CoordKey(rows[b][p].img_idx) :
                                   b \in DOMAIN rows, p \in 1..n})
     IN CASE call.scatter = "missing" ->
               call' = [call EXCEPT !.pc = "done", !.status = "NameError"]
          [] call.scatter = "raises" ->
               RefineReturn([b \in DOMAIN rows |-> ArangeFallback(rows[b])], n)
          [] OTHER ->
               \E argmin \in [DOMAIN rows ->
                                UNION {ScatterArgmin(rows[b], num_keys) :
                                         b \in DOMAIN rows}] :
                 /\ \A b \in DOMAIN rows :
                      argmin[b] \in ScatterArgmin(rows[b], num_keys)
                 /\ RefineReturn(argmin, n)
  /\ UNCHANGED <<search, pano, rotgen, octree>>

NextRefine == RefineSamplingCoords

SpecRefine == InitRefine /\ [][NextRefine]_vars

\* The points that the result of row b keeps.
RefineKept(b) ==
  IF call.valid_mask # <<>>
  THEN {p \in DOMAIN call.valid_mask[b] : call.valid_mask[b][p]}
  ELSE {a + 1 : a \in Range(call.argmin[b])}

\* The points of row b with the key of point p.
SameKey(b, p) ==
  {o \in DOMAIN call.points[b] :
     CoordKey(call.points[b][o].img_idx) = CoordKey(call.points[b][p].img_idx)}

\* C14: when scatter_min is missing or raises, refine_sampling_coords still
\* returns, and its result keeps for each pixel key exactly one point, one
\* of minimum distance rho.
C14_FallbackKeepsNearest ==
  (IsRefineCall /\ call.pc = "done" /\ call.scatter # "returns") =>
    /\ call.status = "returned"
    /\ \A b \in DOMAIN call.points : \A p \in DOMAIN call.points[b] :
         /\ Cardinality(RefineKept(b) \cap SameKey(b, p)) = 1
         /\ \A k \in RefineKept(b) \cap SameKey(b, p) :
              call.points[b][k].rho <= call.points[b][p].rho


-----------------------------------------------------------------------------
(* The pose searches with an empty candidate sequence                      *)

\* C15: a pose search called with no translation candidate or no rotation
\* candidate ends in an error; it returns no result.
C15_EmptyCandidatesRaise ==
  (search.pc = "done" /\ (search.len_trans = 0 \/ search.len_rot = 0)) =>
    search.status \notin {"none", "returned"}

-----------------------------------------------------------------------------
(* sampling_histogram_pose_search (src/utils.py 1696-1724)                 *)

\* Bound: the number of cells of the K x R product of a hybrid search.
MaxHybridCells == 3

\* Sampling losses and histogram scores of the hybrid search, in units.
HybridValues == 0..1

\* None, the default of num_intermediate.  An integer argument m is <<m>>.
None == <<>>

\* loss is the table of sampling losses of the K x R pairs, hist the score
\* that the direct histogram comparison gives each pair.
InitHybrid ==
  \E K \in 1..MaxHybridCells, R \in 1..MaxHybridCells,
     n \in 0..MaxHybridCells,
     m \in {None} \cup {<<v>> : v \in 0..MaxHybridCells} :
    /\ K * R <= MaxHybridCells
    /\ \E loss \in [1..(K * R) -> HybridValues],
          hist \in [1..(K * R) -> HybridValues] :
         search = [pc |-> "call", fn |-> "sampling_histogram",
                   len_trans |-> K, len_rot |-> R, table |-> loss,
                   hist |-> hist, num_input |-> n, num_intermediate |-> m,
                   status |-> "none", min_inds |-> <<>>,
                   trimmed_trans |-> <<>>, trimmed_rot |-> <<>>,
                   input_trans |-> <<>>, input_rot |-> <<>>,
                   returned |-> <<>>]
    /\ pano = Idle
    /\ rotgen = Idle
    /\ octree = Idle
    /\ call = Idle

\* Lines 1717-1724.  min(None, n) on line 1605 raises TypeError.  The second
\* stage scores survivor i from trimmed_trans[i] and trimmed_rot[i].
SamplingHistogramPoseSearch ==
  /\ search.pc = "call"
  /\ search.fn = "sampling_histogram"
  /\ IF search.num_intermediate = None
     THEN search' = [search EXCEPT !.pc = "done", !.status = "TypeError"]
     ELSE \E sorted \in ArgsortOutcomes(search.table) :
            LET min_inds ==
                  SamplingLossTopInds(sorted, search.num_intermediate[1])
                trimmed_trans ==
                  [k \in 1..Len(min_inds) |->
                     TransIndexOf(min_inds[k], search.len_trans, search.len_rot)]
                trimmed_rot ==
                  [k \in 1..Len(min_inds) |->
                     RotIndexOf(min_inds[k], search.len_trans, search.len_rot)]
                hist_intersect ==
                  [k \in 1..Len(min_inds) |->
                     search.hist[trimmed_trans[k] * search.len_rot
                                   + trimmed_rot[k] + 1]]
            IN \E direct_sorted \in ArgsortOutcomes(hist_intersect) :
                 LET direct_inds == DirectTopInds(direct_sorted, search.num_input)
                     input_trans == Gather(trimmed_trans, direct_inds)
                     input_rot == Gather(trimmed_rot, direct_inds)
                 IN search' = [search EXCEPT
                      !.pc = "done",
                      !.status = "returned",
                      !.min_inds = min_inds,
                      !.trimmed_trans = trimmed_trans,
                      !.trimmed_rot = trimmed_rot,
                      !.input_trans = input_trans,
                      !.input_rot = input_rot,
                      !.returned = <<input_trans, input_rot>>]
  /\ UNCHANGED <<pano, rotgen, octree, call>>

NextHybrid == SamplingHistogramPoseSearch

SpecHybrid == InitHybrid /\ [][NextHybrid]_vars

\* The number of pairs with a loss below that of the pair (t, r).
LossRank(t, r) ==
  Cardinality({f \in 1..Len(search.table) :
                 search.table[f] < search.table[t * search.len_rot + r + 1]})

\* C16: sampling_histogram_pose_search returns at most num_input pairs, each
\* one among the num_intermediate pairs of lowest sampling loss and each a
\* translation with the rotation it had in that intermediate set.
C16_HybridReturnsSurvivors ==
  (SearchDone("sampling_histogram") /\ search.status = "returned") =>
    /\ Len(search.returned[1]) = Len(search.returned[2])
    /\ Len(search.returned[1]) <= search.num_input
    /\ \A k \in 1..Len(search.returned[1]) :
         /\ LossRank(search.returned[1][k], search.returned[2][k])
              < search.num_intermediate[1]
         /\ \E i \in 1..Len(search.trimmed_trans) :
              /\ search.returned[1][k] = search.trimmed_trans[i]
              /\ search.returned[2][k] = search.trimmed_rot[i]

-----------------------------------------------------------------------------
(* generate_octree: the adaptive depths (src/utils.py 678-696)             *)

\* Bounds: the extent of a cloud on an axis and the nmin argument.
MaxExtent == 4

MaxNmin == 3

\* Clouds of two points, one at the origin: every box with whole extents.
InitOctreeDepth ==
  \E ex \in 0..MaxExtent, ey \in 0..MaxExtent, ez \in 0..MaxExtent,
     nmin \in 1..MaxNmin :
    /\ octree = [pc |-> "call", xyz |-> {<<0, 0, 0>>, <<ex, ey, ez>>},
                 nmin |-> nmin, status |-> "none", adjusted |-> FALSE,
                 adaptive_nmax |-> <<>>]
    /\ search = Idle
    /\ pano = Idle
    /\ rotgen = Idle
    /\ call = Idle

\* Lines 678-696: generate_octree up to the depths nmin, nmax and nmed.  With
\* a zero extent the depths are conversions of inf and nan and no tensor of
\* lines 830-835 can be made with them.
OctreeAdaptiveDepth ==
  /\ octree.pc = "call"
  /\ IF Degenerate(octree.xyz)
     THEN octree' = [octree EXCEPT !.pc = "done", !.status = "error"]
     ELSE octree' = [octree EXCEPT
            !.pc = "depths",
            !.adjusted = TooFewLeaves(CeilNmax(octree.xyz, octree.nmin)),
            !.adaptive_nmax = AdaptiveNmax(octree.xyz, octree.nmin)]
  /\ UNCHANGED <<search, pano, rotgen, call>>

NextOctreeDepth == OctreeAdaptiveDepth

SpecOctreeDepth == InitOctreeDepth /\ [][NextOctreeDepth]_vars

DepthsKnown == octree.pc = "depths"

\* The axes of least extent.
MinExtentAxes ==
  {a \in Axes : \A b \in Axes : Extent(octree.xyz)[a] <= Extent(octree.xyz)[b]}

\* C17 as claimed: the adaptive depth used for the axis of least extent is
\* exactly the nmin argument.
C17_MinAxisDepthIsNmin ==
  DepthsKnown => \A a \in MinExtentAxes : octree.adaptive_nmax[a] = octree.nmin

\* C17 as amended: the adaptive depth used for the axis of least extent is
\* the nmin argument, plus one when line 690 adds one to every depth; no
\* axis has a smaller depth.
C17_MinAxisDepthIsNminOrNext ==
  DepthsKnown =>
    \A a \in MinExtentAxes :
      /\ octree.adaptive_nmax[a] =
           IF octree.adjusted THEN octree.nmin + 1 ELSE octree.nmin
      /\ \A b \in Axes : octree.adaptive_nmax[a] <= octree.adaptive_nmax[b]

\* A box with one shortest axis whose depths are not adjusted.
C17_Witness ==
  /\ DepthsKnown
  /\ ~octree.adjusted
  /\ Cardinality(MinExtentAxes) = 1
  /\ \E a \in MinExtentAxes : octree.adaptive_nmax[a] = octree.nmin
  /\ octree.nmin > 1

\* C18: after the adjustment the number of leaf cells,
\* 2^(depth_x + depth_y + depth_z), is at least 256.
C18_AtLeast256Leaves ==
  DepthsKnown =>
    Pow2(octree.adaptive_nmax[1] + octree.adaptive_nmax[2]
           + octree.adaptive_nmax[3]) >= 256

-----------------------------------------------------------------------------
(* adaptive_trans_num and generate_trans_points (src/utils.py 332-521)     *)

\* Bounds: the number of translations asked for.
MaxTransNum == 6

TransInitModes == {"uniform", "manual"}

\* init_dict['x_min'], init_dict['x_max'] and the same for y and z.
ManualRanges == {<<0, 2>>, <<1, 4>>}

\* A cloud of two points, one at the origin, and an init_dict with
\* xy_only False, benchmark_grid False and num_trans >= 1.
InitTrans ==
  \E ex \in 0..MaxExtent, ey \in 0..MaxExtent, ez \in 0..MaxExtent,
     n \in 1..MaxTransNum, mode \in TransInitModes, range \in ManualRanges :
    /\ call = [fn |-> "generate_trans_points", pc |-> "call",
               xyz |-> <<<<0, 0, 0>>, <<ex, ey, ez>>>>,
               num_trans |-> n, trans_init_mode |-> mode,
               manual |-> <<range, range, range>>,
               status |-> "none", counts |-> <<>>, points |-> <<>>,
               trans_arr |-> <<>>]
    /\ search = Idle
    /\ pano = Idle
    /\ rotgen = Idle
    /\ octree = Idle

IsTransCall == call.pc # "idle" /\ call.fn = "generate_trans_points"

\* xyz[:, a], in ascending order.
Column(xyz, a) == SortAscending([i \in 1..Len(xyz) |-> xyz[i][a]])

\* Lines 347-348: ten times torch.quantile(column, q10 / 10), which
\* interpolates linearly between the two nearest ranks.
Quantile10(column, q10) ==
  LET n == Len(column)
      pos10 == q10 * (n - 1)
      lo == pos10 \div 10 + 1
      hi == Min(lo + 1, n)
  IN 10 * column[lo] + (pos10 % 10) * (column[hi] - column[lo])

\* Line 349: ten times xyz_length.
XyzLength10(xyz) ==
  <<Quantile10(Column(xyz, 1), 9) - Quantile10(Column(xyz, 1), 1),
    Quantile10(Column(xyz, 2), 9) - Quantile10(Column(xyz, 2), 1),
    Quantile10(Column(xyz, 3), 9) - Quantile10(Column(xyz, 3), 1)>>

\* ceil((num / den) ** (1 / 3)) for num >= 0 and den > 0.
CeilCubeRoot(num, den) ==
  CHOOSE n \in 0..(num + 1) :
    /\ n * n * n * den >= num
    /\ n = 0 \/ (n - 1) * (n - 1) * (n - 1) * den < num

\* Lines 361-366: an even count loses one.
MakeOdd(n) == IF n % 2 = 0 THEN n - 1 ELSE n

\* Lines 357-368.  A zero length makes a quotient inf or nan, of which ceil
\* raises OverflowError or ValueError.
adaptive_trans_num(xyz, max_trans_num) ==
  LET len == XyzLength10(xyz)
  IN IF \E a \in Axes : len[a] = 0
     THEN <<>>
     ELSE <<MakeOdd(CeilCubeRoot(len[1] * len[1] * max_trans_num, len[2] * len[3])),
            MakeOdd(CeilCubeRoot(len[2] * len[2] * max_trans_num, len[1] * len[3])),
            MakeOdd(CeilCubeRoot(len[3] * len[3] * max_trans_num, len[1] * len[2]))>>

\* Lines 431-434: (arange(n) + 1) / (n + 1) * (max - min) + min.
UniformPoints(n, lo, hi) ==
  [k \in 1..n |-> Quotient(k * (hi - lo) + lo * (n + 1), n + 1)]

\* Lines 436-439: arange(n) / (n - 1) * (max - min) + min; with n = 1 the
\* quotient is 0 / 0.
ManualPoints(n, lo, hi) ==
  [k \in 1..n |-> IF n = 1 THEN NaN
                  ELSE Quotient((k - 1) * (hi - lo) + lo * (n - 1), n - 1)]

\* The extent the grid of an axis is laid over.
AxisRange(c, a) ==
  IF c.trans_init_mode = "uniform"
  THEN <<Column(c.xyz, a)[1], Column(c.xyz, a)[Len(c.xyz)]>>
  ELSE c.manual[a]

\* Lines 429-452 for the modes 'uniform' and 'manual'.
get_starting_points(c, counts) ==
  LET AxisPoints(a) ==
        IF c.trans_init_mode = "uniform"
        THEN UniformPoints(counts[a], AxisRange(c, a)[1], AxisRange(c, a)[2])
        ELSE ManualPoints(counts[a], AxisRange(c, a)[1], AxisRange(c, a)[2])
  IN <<AxisPoints(1), AxisPoints(2), AxisPoints(3)>>

\* Lines 518-519: torch.meshgrid and the reshape, x slowest and z fastest.
Meshgrid(points) ==
  LET ny == Len(points[2])
      nz == Len(points[3])
  IN [i \in 1..(Len(points[1]) * ny * nz) |->
        <<points[1][(i - 1) \div (ny * nz) + 1],
          points[2][(((i - 1) \div nz) % ny) + 1],
          points[3][((i - 1) % nz) + 1]>>]

\* Lines 510-521.
GenerateTransPoints ==
  /\ IsTransCall
  /\ call.pc = "call"
  /\ LET counts == adaptive_trans_num(call.xyz, call.num_trans)
     IN IF counts = <<>>
        THEN call' = [call EXCEPT !.pc = "done", !.status = "raised"]
        ELSE call' = [call EXCEPT
               !.pc = "done", !.status = "returned", !.counts = counts,
               !.points = get_starting_points(call, counts),
               !.trans_arr = Meshgrid(get_starting_points(call, counts))]
  /\ UNCHANGED <<search, pano, rotgen, octree>>

NextTrans == GenerateTransPoints

SpecTrans == InitTrans /\ [][NextTrans]_vars

TransReturned == IsTransCall /\ call.status = "returned"

\* The middle of the extent of an axis.
Midpoint(a) ==
  Quotient(AxisRange(call, a)[1] + AxisRange(call, a)[2], 2)

\* C19: the three counts are odd and at least 1, and on every axis one
\* candidate of the 'uniform' or 'manual' grid is exactly the midpoint of
\* the extent of that axis.
C19_OddCountsAndMidpoint ==
  TransReturned =>
    \A a \in Axes :
      /\ call.counts[a] >= 1
      /\ call.counts[a] % 2 = 1
      /\ \E k \in 1..call.counts[a] : call.points[a][k] = Midpoint(a)

-----------------------------------------------------------------------------
(* direct_histogram_pose_search: the block loop (src/utils.py 1646-1693)   *)

\* Bound: num_split_h.
MaxSplitH == 3

\* num_split_w.
SplitWidths == 1..2

\* A block whose masks select no pixel (line 1673).
EmptyBlock == [kind |-> "empty", num |-> 0, den |-> 1]

\* What one block can give: no pixel, or the value histogram_intersection
\* returns for it, which is a number or nan.
BlockOutcomes == {EmptyBlock, NaN} \cup {Quotient(v, 1) : v \in HybridValues}

\* Lines 1646-1649: the state before the first candidate.
InitDirectBlocks ==
  \E k \in 1..MaxTrans, h \in 1..MaxSplitH, w \in SplitWidths :
    /\ call = [fn |-> "direct_histogram_pose_search", pc |-> "loop",
               len_trans |-> k, num_split_h |-> h, num_split_w |-> w,
               i |-> 0,
               hist_intersect |-> [c \in 1..k |-> Quotient(0, 1)],
               hist_intersect_split |-> [b \in 1..(h * w) |-> Quotient(0, 1)],
               outcome |-> <<>>, filled |-> <<>>, min_inds |-> <<>>]
    /\ search = Idle
    /\ pano = Idle
    /\ rotgen = Idle
    /\ octree = Idle

IsDirectBlocksCall ==
  call.pc # "idle" /\ call.fn = "direct_histogram_pose_search"

\* Lines 1661-1662: the blocks the loops can visit, as h * num_split_w + w.
BlockIndices(num_split_h, num_split_w) ==
  {h * num_split_w + w : h \in 1..(num_split_h - 2), w \in 0..(num_split_w - 1)}

\* Lines 1661-1680 for one candidate: the inner loop stores 0 for the first
\* empty block of a row and leaves the row; every other slot keeps the value
\* it had.
FillBlocks(split, outcome, num_split_w) ==
  [b \in 1..Len(split) |->
     LET idx == b - 1
         row == idx \div num_split_w
         Reached ==
           /\ idx \in DOMAIN outcome
           /\ \A e \in (row * num_split_w)..(idx - 1) : outcome[e] # EmptyBlock
     IN IF ~Reached THEN split[b]
        ELSE IF outcome[idx] = EmptyBlock THEN Quotient(0, 1)
        ELSE outcome[idx]]

\* Line 1683 left out.
KeepNaN(split) == split

\* Line 1683: hist_intersect_split[torch.isnan(hist_intersect_split)] = 0.
ReplaceNaN(split) ==
  [b \in 1..Len(split) |-> IF split[b] = NaN THEN Quotient(0, 1) ELSE split[b]]

\* hist_intersect_split.sum(): nan as soon as one entry is nan.
RECURSIVE TensorSum(_)
TensorSum(t) ==
  IF t = <<>> THEN Quotient(0, 1)
  ELSE IF \E b \in 1..Len(t) : t[b] = NaN THEN NaN
  ELSE QAdd(Head(t), TensorSum(Tail(t)))

\* Line 1684: sum().item() / (num_split_h * num_split_w).
BlockMean(split, num_split_h, num_split_w) ==
  IF \E b \in 1..Len(split) : split[b] = NaN THEN NaN
  ELSE QScale(TensorSum(split), 1, num_split_h * num_split_w)

\* Lines 1652-1686: one pass of the loop over the candidates.
DirectCandidate ==
  /\ IsDirectBlocksCall
  /\ call.pc = "loop"
  /\ call.i < call.len_trans
  /\ \E outcome \in [BlockIndices(call.num_split_h, call.num_split_w)
                       -> BlockOutcomes] :
       LET filled == FillBlocks(call.hist_intersect_split, outcome,
                                call.num_split_w)
           split == ReplaceNaN(filled)
       IN call' = [call EXCEPT
            !.i = call.i + 1,
            !.outcome = outcome,
            !.filled = filled,
            !.hist_intersect_split = split,
            !.hist_intersect[call.i + 1] =
               BlockMean(split, call.num_split_h, call.num_split_w)]
  /\ UNCHANGED <<search, pano, rotgen, octree>>

\* The scores times num_split_h * num_split_w: whole numbers in the order
\* of the scores; argsort puts nan after every number.
ScaledScores(c) ==
  [k \in 1..c.len_trans |->
     IF c.hist_intersect[k] = NaN
     THEN c.num_split_h * c.num_split_w * (SetMax(HybridValues) + 1)
     ELSE c.hist_intersect[k].num
            * ((c.num_split_h * c.num_split_w) \div c.hist_intersect[k].den)]

\* Lines 1688-1693: the end of the loop and the trimming.
DirectBlocksReturn ==
  /\ IsDirectBlocksCall
  /\ call.pc = "loop"
  /\ call.i = call.len_trans
  /\ \E num_input \in 0..MaxTrans, sorted \in ArgsortOutcomes(ScaledScores(call)) :
       call' = [call EXCEPT !.pc = "done",
                            !.min_inds = DirectTopInds(sorted, num_input)]
  /\ UNCHANGED <<search, pano, rotgen, octree>>

NextDirectBlocks == DirectCandidate \/ DirectBlocksReturn

SpecDirectBlocks == InitDirectBlocks /\ [][NextDirectBlocks]_vars

\* The sum of the entries that are not nan.
RECURSIVE SumOfNumbers(_)
SumOfNumbers(t) ==
  IF t = <<>> THEN Quotient(0, 1)
  ELSE IF Head(t) = NaN THEN SumOfNumbers(Tail(t))
  ELSE QAdd(Head(t), SumOfNumbers(Tail(t)))

\* C20: no candidate's score is nan, and the score of the candidate just
\* compared is the sum of its block values with every nan block counted as
\* 0, over the number of blocks.
C20_NaNBlocksCountZero ==
  IsDirectBlocksCall =>
    /\ \A k \in 1..call.len_trans : call.hist_intersect[k].kind = "value"
    /\ call.i > 0 =>
         call.hist_intersect[call.i] =
           QScale(SumOfNumbers(call.filled), 1,
                  call.num_split_h * call.num_split_w)

\* A candidate with a nan block next to a block of value 1.
C20_Witness ==
  /\ IsDirectBlocksCall
  /\ call.i > 0
  /\ \E b \in 1..Len(call.filled) : call.filled[b] = NaN
  /\ \E b \in 1..Len(call.filled) : call.filled[b] = Quotient(1, 1)
  /\ call.hist_intersect[call.i].num > 0

\* The score of a candidate from its own blocks alone: every block the
\* loops do not write for it (the first and last rows, and the blocks after
\* an empty block of a row) counts 0.
OwnScore(outcome, num_split_h, num_split_w) ==
  BlockMean(
    ReplaceNaN(FillBlocks([b \in 1..(num_split_h * num_split_w) |->
                             Quotient(0, 1)],
                          outcome, num_split_w)),
    num_split_h, num_split_w)

\* C27: the score direct_histogram_pose_search gives candidate i depends on
\* candidate i only, not on the candidates before it, also when some of its
\* blocks are empty and the inner loop is left early.
C27_ScoreOfCandidateAlone ==
  (IsDirectBlocksCall /\ call.pc = "loop" /\ call.i > 0) =>
    call.hist_intersect[call.i] =
      OwnScore(call.outcome, call.num_split_h, call.num_split_w)

\* The same for the first candidate.
FirstCandidateScoreAlone ==
  (IsDirectBlocksCall /\ call.pc = "loop" /\ call.i = 1) =>
    call.hist_intersect[call.i] =
      OwnScore(call.outcome, call.num_split_h, call.num_split_w)

-----------------------------------------------------------------------------
(* cloud2idx and inv_cloud2idx (src/utils.py 23-84)                        *)
(*                                                                         *)
(* Angles are whole multiples of pi / 4, so that sines and cosines are     *)
(* numbers (a + b * sqrt(2)) / d, kept exactly.  A number carries its      *)
(* order of magnitude: order 0 is of the size of 1, order 1 of the size of *)
(* the 1e-6 the code adds to the denominators, order 2 of the size of a    *)
(* rounding error such as sin(pi) in floating point.  atan2 is taken in    *)
(* the direction of the components of greatest magnitude; what is left out *)
(* is of the size of 1e-6 against a tolerance of 1e-4.                     *)

\* (a + b * sqrt(2)) / d in lowest terms, d > 0.
Surd(a, b, d) ==
  LET g == Gcd(Gcd(Abs(a), Abs(b)), d) IN <<a \div g, b \div g, d \div g>>

SurdZero == Surd(0, 0, 1)

SurdOne == Surd(1, 0, 1)

SurdNeg(s) == <<-s[1], -s[2], s[3]>>

SurdAdd(s, t) == Surd(s[1] * t[3] + t[1] * s[3], s[2] * t[3] + t[2] * s[3], s[3] * t[3])

SurdMul(s, t) ==
  Surd(s[1] * t[1] + 2 * s[2] * t[2], s[1] * t[2] + s[2] * t[1], s[3] * t[3])

\* The sign of a + b * sqrt(2): -1, 0 or 1.
SurdSign(s) ==
  LET a == s[1]
      b == s[2]
  IN IF a = 0 /\ b = 0 THEN 0
     ELSE IF a >= 0 /\ b >= 0 THEN 1
     ELSE IF a <= 0 /\ b <= 0 THEN -1
     ELSE IF a > 0 THEN (IF a * a > 2 * b * b THEN 1 ELSE -1)
     ELSE (IF 2 * b * b > a * a THEN 1 ELSE -1)

\* The non-negative numbers a norm of the model can be.
SurdRoots == {Surd(a, b, d) : a \in 0..2, b \in 0..1, d \in 1..2}

\* torch.norm of two components: the root of the sum of the squares.
SurdNorm(s, t) ==
  CHOOSE r \in SurdRoots : SurdMul(r, r) = SurdAdd(SurdMul(s, s), SurdMul(t, t))

\* A number of the given order of magnitude; 0 has order 0.
Sized(ord, v) == IF v = SurdZero THEN [ord |-> 0, v |-> v] ELSE [ord |-> ord, v |-> v]

Exact(v) == Sized(0, v)

SizedSign(x) == SurdSign(x.v)

SizedMul(x, y) == Sized(x.ord + y.ord, SurdMul(x.v, y.v))

\* x + 1e-6: the 1e-6 is lost against a number of order 0, is all there is
\* when x is 0 or a rounding error, and adds to a number of its own order.
AddEpsilon(x) ==
  IF x.v = SurdZero \/ x.ord = 2 THEN Sized(1, SurdOne)
  ELSE IF x.ord = 0 THEN x
  ELSE Sized(1, SurdAdd(x.v, SurdOne))

\* The part of x that counts at the order ord.
PartAt(x, ord) == IF x.v # SurdZero /\ x.ord = ord THEN x.v ELSE SurdZero

\* The order of the greater of two numbers.
LeadingOrder(x, y) ==
  IF x.v = SurdZero THEN y.ord ELSE IF y.v = SurdZero THEN x.ord ELSE Min(x.ord, y.ord)

\* torch.norm(xyz[:, :2]).
SizedNorm(x, y) ==
  LET ord == LeadingOrder(x, y)
  IN Sized(ord, SurdNorm(PartAt(x, ord), PartAt(y, ord)))

\* cos and sin of k * pi / 4 where they are exact.
CosTable ==
  <<SurdOne, Surd(0, 1, 2), SurdZero, Surd(0, -1, 2),
    Surd(-1, 0, 1), Surd(0, -1, 2), SurdZero, Surd(0, 1, 2)>>

SinTable ==
  <<SurdZero, Surd(0, 1, 2), SurdOne, Surd(0, 1, 2),
    SurdZero, Surd(0, -1, 2), Surd(-1, 0, 1), Surd(0, -1, 2)>>

ExactCos(k) == CosTable[(k % 8) + 1]

ExactSin(k) == SinTable[(k % 8) + 1]

\* Whether (y, x) points along an angle of the model.
OnLattice(y, x) ==
  LET ord == LeadingOrder(x, y)
      X == PartAt(x, ord)
      Y == PartAt(y, ord)
  IN \/ X = SurdZero
     \/ Y = SurdZero
     \/ SurdMul(X, X) = SurdMul(Y, Y)

\* torch.atan2(y, x) in units of pi / 4.  atan2(0, 0) is 0; on the negative
\* x axis the sign of y, however small, chooses between pi and -pi.
Atan2(y, x) ==
  LET ord == LeadingOrder(x, y)
      X == PartAt(x, ord)
      Y == PartAt(y, ord)
  IN IF X = SurdZero /\ Y = SurdZero THEN 0
     ELSE IF Y = SurdZero /\ SurdSign(X) < 0
     THEN (IF SizedSign(y) < 0 THEN -4 ELSE 4)
     ELSE CHOOSE k \in -3..3 :
            /\ SurdMul(X, ExactSin(k)) = SurdMul(Y, ExactCos(k))
            /\ SurdSign(SurdAdd(SurdMul(X, ExactCos(k)), SurdMul(Y, ExactSin(k)))) > 0

\* Lines 55-66 (and 38-49 in the batched form, which computes the same):
\* the coordinate of one point, in quarters.
\*   2 * (1 - phi / (2 pi)) - 1  is  1 - phi / pi,
\*   2 * (theta / pi) - 1.
cloud2idx(xyz) ==
  LET theta == Atan2(SizedNorm(xyz[1], xyz[2]), AddEpsilon(xyz[3]))
      phi == Atan2(xyz[2], AddEpsilon(xyz[1])) + 4
  IN <<4 - phi, 2 * theta - 4>>

\* The sine and cosine a float computation gives for k * pi / 4: where the
\* exact value is 0 and the angle is not, a rounding error of either sign.
RoundedSin(k, round) ==
  IF k = 4 THEN Sized(2, Surd(round[1], 0, 1))
  ELSE IF k = -4 THEN Sized(2, Surd(-round[1], 0, 1))
  ELSE Exact(ExactSin(k))

RoundedCos(k, round) ==
  IF k = 2 \/ k = -2 THEN Sized(2, Surd(round[2], 0, 1))
  ELSE Exact(ExactCos(k))

\* The point of one coordinate with line 77 left out.
inv_cloud2idxUnshifted(coord, round) ==
  LET phi == 4 - coord[1]
      theta == (coord[2] + 4) \div 2
  IN <<SizedMul(RoundedSin(theta, round), RoundedCos(phi, round)),
       SizedMul(RoundedSin(theta, round), RoundedSin(phi, round)),
       RoundedCos(theta, round)>>

\* Lines 73-84: the point of one coordinate given in quarters.
\*   (1 - (c + 1) / 2) * 2 pi - pi  is  -c * pi,
\*   pi * (c + 1) / 2.
inv_cloud2idx(coord, round) ==
  LET phi == -coord[1]
      theta == (coord[2] + 4) \div 2
  IN <<SizedMul(RoundedSin(theta, round), RoundedCos(phi, round)),
       SizedMul(RoundedSin(theta, round), RoundedSin(phi, round)),
       RoundedCos(theta, round)>>

\* The point at vertical angle theta and horizontal angle phi, of the size
\* of 1 (ord = 0) or of 1e-6 (ord = 1).
LatticePoint(theta, phi, ord) ==
  <<Sized(ord, SurdMul(ExactSin(theta), ExactCos(phi))),
    Sized(ord, SurdMul(ExactSin(theta), ExactSin(phi))),
    Sized(ord, ExactCos(theta))>>

\* Points on the unit sphere.
UnitPoints == {LatticePoint(theta, phi, 0) : theta \in 0..4, phi \in -3..4}

\* Points at 1e-6 from the origin along the axes and the diagonals of the
\* coordinate planes, as far as cloud2idx keeps them on the angles of the
\* model.
TinyPoints ==
  {xyz \in {<<Sized(1, Surd(sx, 0, 1)), Sized(1, Surd(sy, 0, 1)),
              Sized(1, Surd(sz, 0, 1))>> :
              sx \in -1..1, sy \in -1..1, sz \in -1..1} :
     /\ \E a \in 1..3 : xyz[a].v # SurdZero
     /\ \E r \in SurdRoots :
          SurdMul(r, r) = SurdAdd(SurdMul(xyz[1].v, xyz[1].v),
                                  SurdMul(xyz[2].v, xyz[2].v))
     /\ OnLattice(xyz[2], AddEpsilon(xyz[1]))
     /\ OnLattice(SizedNorm(xyz[1], xyz[2]), AddEpsilon(xyz[3]))}

\* Coordinates of [-1, 1]^2 in quarters, the vertical one on the angles of
\* the model.
LatticeCoords == {<<c0, 2 * c1>> : c0 \in -4..4, c1 \in -2..2}

\* The signs of the rounding errors of sin(pi) and cos(pi / 2).
Roundings == {<<rs, rc>> : rs \in -1..1, rc \in -1..1}

InitProjection ==
  \E round \in Roundings :
    /\ \/ \E xyz \in UnitPoints \cup TinyPoints :
            call = [fn |-> "cloud2idx", pc |-> "xyz", started |-> "xyz",
                    round |-> round, input |-> xyz, xyz |-> xyz, coord |-> <<>>]
       \/ \E coord \in LatticeCoords :
            call = [fn |-> "cloud2idx", pc |-> "coord", started |-> "coord",
                    round |-> round, input |-> coord, xyz |-> <<>>, coord |-> coord]
    /\ search = Idle
    /\ pano = Idle
    /\ rotgen = Idle
    /\ octree = Idle

IsProjectionCall == call.pc # "idle" /\ call.fn = "cloud2idx"

\* cloud2idx applied to the point at hand.
Cloud2Idx ==
  /\ IsProjectionCall
  /\ call.pc = "xyz"
  /\ call' = [call EXCEPT
       !.coord = cloud2idx(call.xyz),
       !.pc = IF call.started = "xyz" THEN "coord" ELSE "done"]
  /\ UNCHANGED <<search, pano, rotgen, octree>>

\* inv_cloud2idx applied to the coordinate at hand.
InvCloud2Idx ==
  /\ IsProjectionCall
  /\ call.pc = "coord"
  /\ call' = [call EXCEPT
       !.xyz = inv_cloud2idx(call.coord, call.round),
       !.pc = IF call.started = "coord" THEN "xyz" ELSE "done"]
  /\ UNCHANGED <<search, pano, rotgen, octree>>

NextProjection == Cloud2Idx \/ InvCloud2Idx

SpecProjection == InitProjection /\ [][NextProjection]_vars

\* The part of the size of 1: what two numbers must share to be within 1e-4.
Visible(x) == PartAt(x, 0)

\* Whether the point xyz is p / |p| within 1e-4: of length 1, along p and
\* on the side of p.
NearDirection(xyz, p) ==
  LET ord == IF \E a \in 1..3 : p[a].v # SurdZero /\ p[a].ord = 0 THEN 0 ELSE 1
      X(a) == Visible(xyz[a])
      P(a) == PartAt(p[a], ord)
      Dot(U(_), V(_)) ==
        SurdAdd(SurdMul(U(1), V(1)),
                SurdAdd(SurdMul(U(2), V(2)), SurdMul(U(3), V(3))))
  IN /\ Dot(X, X) = SurdOne
     /\ \A a, b \in 1..3 : SurdMul(X(a), P(b)) = SurdMul(X(b), P(a))
     /\ SurdSign(Dot(X, P)) > 0

RoundTripDone == IsProjectionCall /\ call.pc = "done"

-----------------------------------------------------------------------------
(* make_score_map_2d: the outlier rejection of lines 1220-1235             *)

\* The largest integer margin.
MaxMargin == 1

\* (num_split_h, num_split_w)
MapShapes == {<<1, 1>>, <<2, 2>>, <<3, 1>>, <<3, 2>>, <<4, 2>>}

\* What histogram_intersection gives one patch (line 1215).
MapScores == 0..1

\* len(trans) * len(rot)
MapPairs == 1..2

\* Lines 1153, 1171: a call with its arguments, tot_intersect not yet filled.
InitScoreMap2d ==
  \E shape \in MapShapes, margin \in 0..MaxMargin, pairs \in MapPairs :
    /\ call = [fn |-> "make_score_map_2d", pc |-> "compare",
               num_split_h |-> shape[1], num_split_w |-> shape[2],
               margin |-> margin, pairs |-> pairs, tot_intersect |-> <<>>,
               status |-> "none", max_intersect |-> <<>>]
    /\ search = Idle /\ pano = Idle /\ rotgen = Idle /\ octree = Idle

IsScoreMap2dCall == call.pc # "idle" /\ call.fn = "make_score_map_2d"

\* Lines 1192-1217 for one (translation, rotation) pair: the scores of the
\* patches are stored in tot_intersect[i, j].
ScoreMap2dCompare ==
  /\ IsScoreMap2dCall /\ call.pc = "compare"
  /\ Len(call.tot_intersect) < call.pairs
  /\ \E cand_intersect \in
        [1..(call.num_split_h * call.num_split_w) -> MapScores] :
       call' = [call EXCEPT
                  !.tot_intersect = Append(call.tot_intersect, cand_intersect)]
  /\ UNCHANGED <<search, pano, rotgen, octree>>

\* The position a slice bound k stands for in a dimension of n entries: a
\* negative bound counts from the end, and -0 is 0.
SliceBound(k, n) == IF k < 0 THEN Max(k + n, 0) ELSE Min(k, n)

\* The rows (from 1) that the slice [start:stop] selects of n rows.
SliceRows(start, stop, n) ==
  {r \in 1..n : SliceBound(start, n) < r /\ r <= SliceBound(stop, n)}

\* Lines 1220-1221: the maximum of each patch over all pairs, as rows.
PatchMaxima(tot_intersect, num_split_w, r, c) ==
  SetMax({tot_intersect[k][(r - 1) * num_split_w + c] :
            k \in 1..Len(tot_intersect)})

\* avg_pool2d(kernel_size=3, stride=1, padding=1, count_include_pad=False)
\* of the rows in rows of a map, at (r, c): the mean over the entries of
\* the 3 x 3 window that are inside.
AvgPool(map, rows, num_split_w, r, c) ==
  LET window == {<<rr, cc>> \in rows \X (1..num_split_w) :
                    Abs(rr - r) <= 1 /\ Abs(cc - c) <= 1}
  IN Quotient(SumOver(window, [w \in window |-> map[w[1]][w[2]]]),
              Cardinality(window))

\* Lines 1220-1235 with an integer margin.  -margin is 0 for margin 0, so
\* [-margin:] is then every row and [margin:-margin] none; avg_pool2d
\* raises for an input without rows, and the squeezed result of more than
\* one row of one column cannot be assigned to the rows it came from.
ScoreMap2dReject ==
  /\ IsScoreMap2dCall /\ call.pc = "compare"
  /\ Len(call.tot_intersect) = call.pairs
  /\ LET H == call.num_split_h
         W == call.num_split_w
         first == SliceRows(0, call.margin, H)
         last == SliceRows(-call.margin, H, H)
         middle == SliceRows(call.margin, -call.margin, H)
         zeroed == [r \in 1..H |-> [c \in 1..W |->
                      IF r \in first \cup last THEN 0
                      ELSE PatchMaxima(call.tot_intersect, W, r, c)]]
     IN IF middle = {} \/ (W = 1 /\ Cardinality(middle) > 1)
        THEN call' = [call EXCEPT !.pc = "done", !.status = "RuntimeError"]
        ELSE call' = [call EXCEPT
               !.pc = "done",
               !.status = "returned",
               !.max_intersect =
                  [r \in 1..H |-> [c \in 1..W |->
                     IF r \in middle THEN AvgPool(zeroed, middle, W, r, c)
                     ELSE Quotient(zeroed[r][c], 1)]]]
  /\ UNCHANGED <<search, pano, rotgen, octree>>

NextScoreMap2d == ScoreMap2dCompare \/ ScoreMap2dReject

SpecScoreMap2d == InitScoreMap2d /\ [][NextScoreMap2d]_vars

\* The rows margin+1 .. num_split_h-margin that the margin leaves.
RemainingRows ==
  {r \in 1..call.num_split_h :
     call.margin < r /\ r <= call.num_split_h - call.margin}

\* The mean, over the 3 x 3 neighbourhood of (r, c) within the remaining
\* rows, of the maxima of the patches over all pairs.
PooledMaxima(r, c) ==
  LET window == {<<rr, cc>> \in RemainingRows \X (1..call.num_split_w) :
                    Abs(rr - r) <= 1 /\ Abs(cc - c) <= 1}
  IN Quotient(SumOver(window,
                      [w \in window |->
                         PatchMaxima(call.tot_intersect, call.num_split_w,
                                     w[1], w[2])]),
              Cardinality(window))

\* C26: with an integer margin m, 0 <= m and 2m < num_split_h,
\* make_score_map_2d returns a map whose first m and last m rows are 0 and
\* whose remaining rows are the 3 x 3 average-pooled maxima of the patches
\* over all pairs; with m = 0 no row is suppressed.
C26_MarginRowsSuppressed ==
  (IsScoreMap2dCall /\ call.pc = "done"
     /\ 2 * call.margin < call.num_split_h) =>
    /\ call.status = "returned"
    /\ \A r \in 1..call.num_split_h : \A c \in 1..call.num_split_w :
         call.max_intersect[r][c] =
           IF r \in RemainingRows THEN PooledMaxima(r, c) ELSE Quotient(0, 1)

\* The same for a margin of at least 1 and more than one column.
PositiveMarginRowsSuppressed ==
  (IsScoreMap2dCall /\ call.pc = "done" /\ call.margin >= 1
     /\ call.num_split_w > 1 /\ 2 * call.margin < call.num_split_h) =>
    /\ call.status = "returned"
    /\ \A r \in 1..call.num_split_h : \A c \in 1..call.num_split_w :
         call.max_intersect[r][c] =
           IF r \in RemainingRows THEN PooledMaxima(r, c) ELSE Quotient(0, 1)

-----------------------------------------------------------------------------
(* make_score_map_3d: the masks of the query images (lines 1322-1373)      *)

\* The largest number of query images.
MaxQueries == 2

\* The pixels of an image.
MaskPixels == 1..2

\* A mask says of each pixel whether it is non-empty.
Masks == [MaskPixels -> BOOLEAN]

\* len(trans) and len(rot)
ViewCounts == 1..2

\* torch.logical_and
LogicalAnd(a, b) == [x \in MaskPixels |-> a[x] /\ b[x]]

\* Lines 1290-1307, 1320: the query images are chosen, no histogram is
\* cached yet and img_mask_chunk is not bound.
InitQueryMasks ==
  \E num_img \in 1..MaxQueries, num_trans \in ViewCounts,
     num_rot \in ViewCounts :
    \E img_list \in [1..num_img -> Masks] :
      /\ call = [fn |-> "make_score_map_3d", pc |-> "cache",
                 img_list |-> img_list, len_trans |-> num_trans,
                 len_rot |-> num_rot, img_mask_chunk |-> None,
                 img_hist_list |-> <<>>, i |-> 0, j |-> 0, q |-> 0,
                 proj_nonempty |-> None, proj_mask_chunk |-> None,
                 compared |-> None]
      /\ search = Idle /\ pano = Idle /\ rotgen = Idle /\ octree = Idle

IsQueryMasksCall ==
  /\ call.pc # "idle"
  /\ call.fn = "make_score_map_3d"
  /\ "img_mask_chunk" \in DOMAIN call

\* Lines 1323-1336 for one query image: its mask is bound to img_mask_chunk
\* and its histogram, made under that mask, is appended.
CacheQueryImage ==
  /\ IsQueryMasksCall /\ call.pc = "cache"
  /\ LET img == call.img_list[Len(call.img_hist_list) + 1]
         img_hist_list == Append(call.img_hist_list, [mask |-> img])
     IN call' = [call EXCEPT
          !.img_mask_chunk = img,
          !.img_hist_list = img_hist_list,
          !.pc = IF Len(img_hist_list) = Len(call.img_list)
                 THEN "project" ELSE "cache"]
  /\ UNCHANGED <<search, pano, rotgen, octree>>

\* Lines 1339-1365 for one translation: the synthetic view is made and its
\* non-empty mask is combined with img_mask_chunk, which the caching loop
\* left bound to the mask of the last query image.
ProjectSyntheticView ==
  /\ IsQueryMasksCall /\ call.pc = "project"
  /\ \E proj_mask_chunk \in Masks :
       call' = [call EXCEPT
          !.proj_nonempty = proj_mask_chunk,
          !.proj_mask_chunk = LogicalAnd(proj_mask_chunk, call.img_mask_chunk),
          !.pc = "compare"]
  /\ UNCHANGED <<search, pano, rotgen, octree>>

\* Lines 1367-1380 for one rotation and one query image: the histogram of
\* the synthetic view is compared with the cached one of the image.
CompareQueryImage ==
  /\ IsQueryMasksCall /\ call.pc = "compare"
  /\ LET last_q == call.q + 1 = Len(call.img_hist_list)
         last_j == last_q /\ call.j + 1 = call.len_rot
         last_i == last_j /\ call.i + 1 = call.len_trans
     IN call' = [call EXCEPT
          !.compared = [query |-> call.q + 1,
                        img_mask |-> call.img_hist_list[call.q + 1].mask,
                        proj_nonempty |-> call.proj_nonempty,
                        proj_mask |-> call.proj_mask_chunk],
          !.q = IF last_q THEN 0 ELSE call.q + 1,
          !.j = IF last_j THEN 0 ELSE IF last_q THEN call.j + 1 ELSE call.j,
          !.i = IF last_j THEN call.i + 1 ELSE call.i,
          !.pc = IF last_i THEN "done"
                 ELSE IF last_j THEN "project" ELSE "compare"]
  /\ UNCHANGED <<search, pano, rotgen, octree>>

NextQueryMasks ==
  CacheQueryImage \/ ProjectSyntheticView \/ CompareQueryImage

SpecQueryMasks == InitQueryMasks /\ [][NextQueryMasks]_vars

\* C28: the synthetic patches compared with a query image are masked with
\* the non-empty mask of that same query image, also when there is more
\* than one query image.
C28_MaskOfTheSameImage ==
  (IsQueryMasksCall /\ call.compared # None) =>
    /\ call.compared.img_mask = call.img_list[call.compared.query]
    /\ call.compared.proj_mask =
         LogicalAnd(call.compared.proj_nonempty,
                    call.img_list[call.compared.query])

\* The same with one query image only.
SingleQueryMaskOfTheSameImage ==
  (IsQueryMasksCall /\ call.compared # None /\ Len(call.img_list) = 1) =>
    call.compared.proj_mask =
      LogicalAnd(call.compared.proj_nonempty,
                 call.img_list[call.compared.query])

=============================================================================
